---- MODULE Spec2Model ----
(***************************************************************************)
(* Model of the SatelliteProcessor client: ServerCommunicator              *)
(* (src/core/server_communicator.py) and the job flow of                   *)
(* ServerBaseFunctionWindow (src/gui/function_windows_server.py).          *)
(*                                                                         *)
(* SpecWait     wait_for_job polling a status source, and the caller's     *)
(*              report of its result.                                      *)
(***************************************************************************)
EXTENDS Integers, Sequences, FiniteSets, TLC

\* ------------------------------------------------------------------ bounds
MaxTimeout == 11      \* timeouts 0..MaxTimeout seconds are tried
MaxPollCost == 1      \* a status lookup takes 0..MaxPollCost seconds
MaxHookCost == 1      \* a hook call takes 0..MaxHookCost seconds
MaxExtra == 1         \* values 0..MaxExtra of a document's non-status field
MaxIdLen == 3         \* job_id strings of 0..MaxIdLen characters are tried
MaxWorkers == 2       \* worker processes the scheduler runs at once
MaxQueueTimeout == 1  \* timeout of wait_for_job on the shared queue
MaxTextLen == 2       \* string values of 0..MaxTextLen characters are tried
MaxNameLen == 2       \* function names of 0..MaxNameLen characters are tried
MaxSecond == 1        \* submissions fall into the seconds 0..MaxSecond
MaxSuffix == 1        \* uuid prefixes 0..MaxSuffix are drawn
MaxOrphans == 1       \* connect is called again until MaxOrphans channels are orphaned

\* ------------------------------------------------------- program constants
PollInterval == 5     \* time.sleep(5)
SuffixLen == 8        \* uuid.uuid4().hex[:8]

\* Python's None (a value no document equals)
None == [none |-> TRUE]
Statuses == <<"pending", "running", "completed", "failed">>
StatusSet == {Statuses[i] : i \in 1..Len(Statuses)}
TerminalStatuses == {"completed", "failed"}

\* A job document as get_job_status returns it: job_id, the status field and
\* one other field the remote worker may change (any other server-side field).
JobDoc(j, s, x) == [job_id |-> j, status |-> s, extra |-> x]
\* the job_id wait_for_job is called with (strings are sequences of characters)
\* the job ids of the queue, and one that is in no directory
JobA == <<"a">>
JobB == <<"b">>
ExistingJobs == {JobA, JobB}
UnknownJob == <<"a", "b">>
WaitJob == <<"a">>
Docs == {JobDoc(WaitJob, s, x) : s \in StatusSet, x \in 0..MaxExtra}
\* What one call of get_job_status can return: a document or None.
Snapshots == Docs \cup {None}

Last(s) == s[Len(s)]
Front(s) == SubSeq(s, 1, Len(s) - 1)

VARIABLES
  \* ---- wait_for_job(job_id, timeout, progress_callback)
  timeout,      \* argument timeout
  hasHook,      \* progress_callback is not None
  wpc,          \* position in wait_for_job
  clock,        \* time.time() - start_time
  status,       \* local status
  last_status,  \* local last_status
  result,       \* return value
  hookLog,      \* documents passed to progress_callback, in order
  pollLog,      \* values returned by get_job_status, in order
  sleeps,       \* number of time.sleep(5) calls
  iterCost,     \* time spent in the current iteration outside sleep
  uiMsg         \* what submit_job_to_server shows after wait_for_job

waitVars == <<timeout, hasHook, wpc, clock, status, last_status, result,
              hookLog, pollLog, sleeps, iterCost, uiMsg>>

VARIABLES
  \* ---- the remote host and the operation the client is in
  rfs,          \* remote filesystem: node path -> directory or file content
  op,           \* the client's operation: "idle", "status", "cleanup", ...
  arg,          \* its job_id argument
  idx,          \* its position (next command)
  ret,          \* its return value
  done,         \* it has returned
  cmdLog,       \* remote commands it has issued so far, in order
  rfs0,         \* the remote filesystem at the start
  \* ---- get_job_status(job_id), called by the client or by wait_for_job
  gpc,          \* "idle", "probing" or "returned"
  gsJob,        \* argument job_id
  gsIdx,        \* index of the next status directory to probe
  gsRet,        \* return value
  gsSeenAbsent  \* history: at one of its probes no directory held the job

callVars == <<op, arg, idx, ret, done, cmdLog, rfs0>>
gsVars == <<gpc, gsJob, gsIdx, gsRet, gsSeenAbsent>>

VARIABLES
  \* ---- download_results(job_id, local_dir)
  dpc,              \* position in download_results
  lfs,              \* files under local_dir: path below local_dir -> data
  localDir,         \* local_dir exists
  sftpOpen,         \* the SFTP sub-channel is open
  sftpOpens,        \* number of open_sftp() calls
  remote_files,     \* lines of the find output not yet dealt with, in order
  downloaded_count, \* local downloaded_count
  copied,           \* lines whose sftp.get succeeded in this call
  findOrder,        \* the order in which the remote system lists a tree
  firstRun,         \* result and local tree of a first call that is repeated
  faulted           \* a transfer failed that could have succeeded

dlVars == <<dpc, lfs, localDir, sftpOpen, sftpOpens, remote_files,
            downloaded_count, copied, findOrder, firstRun, faulted>>

VARIABLES
  \* ---- submit_job
  spc,          \* position in submit_job
  job_data,     \* the document submit_job has built
  stderr_content,  \* what the write command said on stderr, as far as read
  guardLog,     \* what its launcher guard saw and did, in order
  caller_parameters,  \* the dict the caller passed as parameters, as it is now
  \* ---- the batch scheduler and the other submitters
  workers,      \* worker processes the batch scheduler lists for the account
  issued,       \* job ids drawn so far, by any submitter
  otherSawZero, \* another submitter's guard has seen no worker and not acted yet
  started       \* workers this session's guard has submitted

subVars == <<spc, job_data, stderr_content, guardLog, caller_parameters>>
envVars == <<workers, issued, otherSawZero, started>>

VARIABLES
  \* ---- the session's two channels, and disconnect
  gateway_client,  \* "None", "open" or "closed"
  compute_client,  \* "None", "open" or "closed"
  dcpc,            \* position in disconnect
  job_ids,         \* number of worker job ids its scheduler query listed
  orphans          \* open channels whose client object no attribute holds

connVars == <<gateway_client, compute_client, dcpc, job_ids, orphans>>
\* no channel is open without a handle
NoOrphans == [gateway |-> 0, compute |-> 0]

VARIABLES
  \* ---- the log, and what leaves an operation other than by return
  logged,          \* records written to the logger: set of <<level, what>>
  raised,          \* an exception has left the operation uncaught
  \* ---- the window: its job thread and its close handler
  flow,            \* position of the job thread in submit_job_to_server
  current_job_id,  \* self.current_job_id
  closing          \* position of the GUI thread in on_close

logVars == <<logged, raised>>
guiVars == <<flow, current_job_id, closing>>
vars == <<waitVars, rfs, callVars, gsVars, dlVars, subVars, envVars, connVars,
          logVars, guiVars>>

NoMsg == "NoMsg"
WaitFinished == wpc \in {"returned", "timedout"}
IsTerminal(d) == d # None /\ d.status \in TerminalStatuses

\* ------------------------------------------------------------ wait_for_job
\* start_time = time.time(); last_status = None
InitWait ==
  /\ timeout \in 0..MaxTimeout
  /\ hasHook \in BOOLEAN
  /\ wpc = "test"
  /\ clock = 0
  /\ status = None
  /\ last_status = None
  /\ result = None
  /\ hookLog = <<>>
  /\ pollLog = <<>>
  /\ sleeps = 0
  /\ iterCost = 0
  /\ uiMsg = NoMsg

\* while time.time() - start_time < timeout
DeadlineInclusive == clock <= timeout
DeadlineOpen == clock < timeout

WaitTest ==
  /\ UNCHANGED <<rfs, callVars, gsVars, dlVars, subVars, envVars, connVars, logVars, guiVars>>
  /\ wpc = "test"
  /\ DeadlineOpen
  /\ wpc' = "poll"
  /\ iterCost' = 0
  /\ UNCHANGED <<timeout, hasHook, clock, status, last_status, result,
                 hookLog, pollLog, sleeps, uiMsg>>

\* the loop ends: logger.warning(...); return None
WaitTimedOut ==
  /\ UNCHANGED <<rfs, callVars, gsVars, dlVars, subVars, envVars, connVars, logVars, guiVars>>
  /\ wpc = "test"
  /\ ~DeadlineOpen
  /\ wpc' = "timedout"
  /\ result' = None
  /\ UNCHANGED <<timeout, hasHook, clock, status, last_status,
                 hookLog, pollLog, sleeps, iterCost, uiMsg>>

\* status = self.get_job_status(job_id): the lookup returns s after c seconds
PollResult(s, c) ==
  /\ status' = s
  /\ pollLog' = Append(pollLog, s)
  /\ clock' = clock + c
  /\ iterCost' = iterCost + c
  /\ wpc' = "compare"
  /\ UNCHANGED <<timeout, hasHook, last_status, result, hookLog, sleeps, uiMsg>>
WaitPoll(s, c) ==
  /\ UNCHANGED <<rfs, callVars, gsVars, dlVars, subVars, envVars, connVars, logVars, guiVars>>
  /\ wpc = "poll"
  /\ PollResult(s, c)

\* if status and status != last_status
StatusOnlyChanged(s, l) == s # None /\ (l = None \/ s.status # l.status)
EveryPoll(s, l) == s # None
Changed(s, l) == s # None /\ s # l

\* last_status = status (and on to the hook), or straight to the sleep
WaitCompare ==
  /\ UNCHANGED <<rfs, callVars, gsVars, dlVars, subVars, envVars, connVars, logVars, guiVars>>
  /\ wpc = "compare"
  /\ IF Changed(status, last_status)
       THEN /\ last_status' = status
            /\ wpc' = IF hasHook THEN "hook" ELSE "terminal"
       ELSE /\ wpc' = "sleep"
            /\ UNCHANGED last_status
  /\ UNCHANGED <<timeout, hasHook, clock, status, result, hookLog, pollLog,
                 sleeps, iterCost, uiMsg>>

\* if progress_callback: progress_callback(status)
WaitHook(c) ==
  /\ UNCHANGED <<rfs, callVars, gsVars, dlVars, subVars, envVars, connVars, logVars, guiVars>>
  /\ wpc = "hook"
  /\ hookLog' = Append(hookLog, status)
  /\ clock' = clock + c
  /\ iterCost' = iterCost + c
  /\ wpc' = "terminal"
  /\ UNCHANGED <<timeout, hasHook, status, last_status, result, pollLog,
                 sleeps, uiMsg>>

\* progress_callback(status) raises: wait_for_job has no handler, the
\* exception leaves it
WaitHookRaises ==
  /\ wpc = "hook"
  /\ hookLog' = Append(hookLog, status)
  /\ wpc' = "raised"
  /\ raised' = TRUE
  /\ UNCHANGED <<timeout, hasHook, clock, status, last_status, result, pollLog,
                 sleeps, iterCost, uiMsg>>
  /\ UNCHANGED <<rfs, callVars, gsVars, dlVars, subVars, envVars, connVars,
                 logged, guiVars>>

\* if status['status'] in ['completed', 'failed']: return status
OnlyCompleted(d) == d.status = "completed"
ReturnsOn(d) == d.status \in TerminalStatuses
\* status['status'] on a document that has the key
HasStatus(d) == "status" \in DOMAIN d

\* ... and on one that has not: KeyError, which leaves wait_for_job
WaitKeyError ==
  /\ wpc = "terminal"
  /\ ~HasStatus(status)
  /\ wpc' = "raised"
  /\ raised' = TRUE
  /\ UNCHANGED <<timeout, hasHook, clock, status, last_status, result, hookLog,
                 pollLog, sleeps, iterCost, uiMsg>>
  /\ UNCHANGED <<rfs, callVars, gsVars, dlVars, subVars, envVars, connVars,
                 logged, guiVars>>

WaitTerminal ==
  /\ UNCHANGED <<rfs, callVars, gsVars, dlVars, subVars, envVars, connVars, logVars, guiVars>>
  /\ wpc = "terminal"
  /\ HasStatus(status)
  /\ IF ReturnsOn(status)
       THEN /\ wpc' = "returned"
            /\ result' = status
       ELSE /\ wpc' = "sleep"
            /\ UNCHANGED result
  /\ UNCHANGED <<timeout, hasHook, clock, status, last_status, hookLog,
                 pollLog, sleeps, iterCost, uiMsg>>

\* time.sleep(5)
WaitSleep ==
  /\ UNCHANGED <<rfs, callVars, gsVars, dlVars, subVars, envVars, connVars, logVars, guiVars>>
  /\ wpc = "sleep"
  /\ clock' = clock + PollInterval
  /\ sleeps' = sleeps + 1
  /\ wpc' = "test"
  /\ UNCHANGED <<timeout, hasHook, status, last_status, result, hookLog,
                 pollLog, iterCost, uiMsg>>

\* submit_job_to_server after wait_for_job returned final_status
\*   if not final_status: show_error("Job timed out")
\*   if final_status['status'] == 'completed': ... "Downloading results..."
\*   else: show_error("Job failed on server")
ReportTimeoutAsFailed(r) ==
  IF r # None /\ r.status = "completed" THEN "Downloading results..."
  ELSE "Job failed on server"
ReportOf(r) ==
  IF r = None THEN "Job timed out"
  ELSE IF r.status = "completed" THEN "Downloading results..."
  ELSE "Job failed on server"

GuiReport ==
  /\ UNCHANGED <<rfs, callVars, gsVars, dlVars, subVars, envVars, connVars, logVars, guiVars>>
  /\ WaitFinished
  /\ uiMsg = NoMsg
  /\ uiMsg' = ReportOf(result)
  /\ UNCHANGED <<timeout, hasHook, wpc, clock, status, last_status, result,
                 hookLog, pollLog, sleeps, iterCost>>

WaitStep ==
  \/ WaitTest
  \/ WaitTimedOut
  \/ \E s \in Snapshots, c \in 0..MaxPollCost : WaitPoll(s, c)
  \/ WaitCompare
  \/ \E c \in 0..MaxHookCost : WaitHook(c)
  \/ WaitTerminal
  \/ WaitSleep

\* ------------------------------------------------- the remote filesystem
\* Strings are sequences of characters; names the code writes literally are
\* single characters here ("results", ".json", ...).  A node path is the
\* sequence of a node's components from the root, each component a string.
Dir == [kind |-> "dir"]
File(data) == [kind |-> "file", data |-> data]
Blob(n) == [blob |-> n]

\* self.server_base_path, and the directory remote commands start in
server_base_path == <<"/", "home", "/", "vdidur", "/", "Server_SatelliteProcessor">>
HomePath == << <<"home">>, <<"vdidur">> >>
BaseNode == Append(HomePath, <<"Server_SatelliteProcessor">>)
ResultsNode == Append(BaseNode, <<"results">>)
JobsNode == Append(BaseNode, <<"jobs">>)
StatusNode(d) == Append(JobsNode, <<d>>)
DocNode(d, j) == Append(StatusNode(d), j \o <<".json">>)
SbatchNode == Append(BaseNode, <<"sbatch">>)
ScriptNode == Append(SbatchNode, <<"process_job.sbatch">>)

IsPrefix(p, q) == Len(p) <= Len(q) /\ SubSeq(q, 1, Len(p)) = p
Exists(fs, p) == p \in DOMAIN fs
IsDir(fs, p) == Exists(fs, p) /\ fs[p].kind = "dir"
IsFile(fs, p) == Exists(fs, p) /\ fs[p].kind = "file"
Parent(p) == IF p = <<>> THEN p ELSE Front(p)
Prefixes(p) == {SubSeq(p, 1, n) : n \in 0..Len(p)}

\* the layout the server keeps: base path, jobs/<status>, results, sbatch
SkeletonNodes ==
  UNION {Prefixes(StatusNode(d)) : d \in StatusSet}
    \cup {ResultsNode, SbatchNode}
Skeleton ==
  [p \in SkeletonNodes \cup {ScriptNode} |->
     IF p = ScriptNode THEN File(Blob(0)) ELSE Dir]
\* fs with the files fileMap (node path -> data) added, and their directories
WithFiles(fs, fileMap) ==
  LET dirs == UNION {Prefixes(Parent(p)) : p \in DOMAIN fileMap}
  IN [p \in DOMAIN fs \cup dirs \cup DOMAIN fileMap |->
        IF p \in DOMAIN fileMap THEN File(fileMap[p])
        ELSE IF p \in DOMAIN fs THEN fs[p] ELSE Dir]
Without(fs, gone) == [p \in DOMAIN fs \ gone |-> fs[p]]
Subtree(fs, p) == {q \in DOMAIN fs : IsPrefix(p, q)}

\* str.split(sep)
RECURSIVE Split(_, _)
Split(s, sep) ==
  IF s = <<>> THEN << <<>> >>
  ELSE LET r == Split(Tail(s), sep)
       IN IF Head(s) = sep THEN << <<>> >> \o r
          ELSE << <<Head(s)>> \o Head(r) >> \o Tail(r)
NonEmpty(w) == w # <<>>
\* the shell splits a command line at blanks
Words(cmd) == SelectSeq(Split(cmd, " "), NonEmpty)

\* path lookup as the remote kernel does it, from the root or from HomePath
RECURSIVE Walk(_, _, _)
Walk(fs, cur, comps) ==
  IF comps = <<>> THEN [ok |-> TRUE, path |-> cur]
  ELSE IF ~IsDir(fs, cur) THEN [ok |-> FALSE, path |-> cur]
  ELSE LET c == Head(comps)
       IN IF c = <<>> \/ c = <<".">> THEN Walk(fs, cur, Tail(comps))
          ELSE IF c = <<".", ".">> THEN Walk(fs, Parent(cur), Tail(comps))
          ELSE Walk(fs, Append(cur, c), Tail(comps))
Resolve(fs, str) ==
  Walk(fs, IF str # <<>> /\ Head(str) = "/" THEN <<>> ELSE HomePath,
       Split(str, "/"))
\* the node a path string names, when there is one
Names(fs, str) == Resolve(fs, str).ok /\ Exists(fs, Resolve(fs, str).path)

\* self.compute_client.exec_command / open_sftp: they work on an open compute
\* channel; on None (AttributeError) and on a closed client they raise
CanExec == compute_client = "open"

\* ------------------------------------------------------- get_job_status
\* f"cat {remote_path} 2>/dev/null" for status_dir and job_id
CatCommand(d, j) ==
  <<"cat", " ">> \o server_base_path \o <<"/", "jobs", "/", d, "/">> \o j
     \o <<".json", " ", "2>/dev/null">>
\* stdout of a cat command: the contents of the operands that are files
PathArgs(cmd) ==
  LET Operand(w) == Head(w) \notin {"-rf", "-f", "-la", "2>/dev/null"}
  IN SelectSeq(Tail(Words(cmd)), Operand)
RECURSIVE CatOut(_, _)
CatOut(fs, args) ==
  IF args = <<>> THEN <<>>
  ELSE LET r == Resolve(fs, Head(args))
       IN (IF r.ok /\ IsFile(fs, r.path) THEN <<fs[r.path].data>> ELSE <<>>)
            \o CatOut(fs, Tail(args))
ExecCat(fs, cmd) == CatOut(fs, PathArgs(cmd))
\* the tree after a cat command: cat only reads
CatConsumes(fs, cmd) ==
  Without(fs, {Resolve(fs, PathArgs(cmd)[i]).path : i \in 1..Len(PathArgs(cmd))}
                \ {<<>>})
AfterCat(fs, cmd) == fs

\* content = stdout.read().decode(): an empty file adds nothing to it
HasText(data) == data # [blob |-> 0]
\* json.loads(content) gives the document, or raises on text that is no JSON
IsJson(data) == "blob" \notin DOMAIN data
Parses(content) == \A i \in 1..Len(content) : IsJson(content[i])

\* for status_dir in ['pending', 'running', 'completed', 'failed']
ReverseOrder(i) == Statuses[Len(Statuses) + 1 - i]
ProbeDir(i) == Statuses[i]

\* the status directories (by index) that hold a document of job j
HoldingDirs(fs, j) == {i \in 1..Len(Statuses) : IsFile(fs, DocNode(Statuses[i], j))}
\* the status directories holding a document named after job id j
Holding(fs, j) == {d \in StatusSet : Exists(fs, DocNode(d, j))}

\* a call of get_job_status(j) begins
GsBegin(j) ==
  /\ gpc = "idle"
  /\ gpc' = "probing"
  /\ gsJob' = j
  /\ gsIdx' = 1
  /\ gsRet' = None
  /\ gsSeenAbsent' = FALSE

\* one pass of the loop body: cat the file; if content: return json.loads(content)
\* (json.loads raises on more than one document: except -> return None)
StatusProbe ==
  /\ gpc = "probing"
  /\ gsIdx \in 1..Len(Statuses)
  /\ CanExec
  /\ LET cmd == CatCommand(ProbeDir(gsIdx), gsJob)
         content == SelectSeq(ExecCat(rfs, cmd), HasText)
     IN /\ Parses(content)
        /\ cmdLog' = Append(cmdLog, cmd)
        /\ rfs' = AfterCat(rfs, cmd)
        /\ gsSeenAbsent' = (gsSeenAbsent \/ HoldingDirs(rfs, gsJob) = {})
        /\ IF content # <<>>
             THEN /\ gsRet' = IF Len(content) = 1 THEN content[1] ELSE None
                  /\ gpc' = "returned"
                  /\ UNCHANGED gsIdx
             ELSE /\ gsIdx' = gsIdx + 1
                  /\ UNCHANGED <<gpc, gsRet>>
  /\ UNCHANGED <<op, arg, idx, ret, done, rfs0, gsJob, waitVars, dlVars,
                 subVars, envVars, connVars, logVars, guiVars>>

\* except Exception: logger.error(...); return None
LastKnown == [job_id |-> <<"a">>, status |-> "running", extra |-> 0]
OnReadError == None

\* the content read is no JSON: json.loads raises, except, logger.error,
\* return None
StatusUnparsable ==
  /\ gpc = "probing"
  /\ gsIdx \in 1..Len(Statuses)
  /\ CanExec
  /\ LET cmd == CatCommand(ProbeDir(gsIdx), gsJob)
         content == SelectSeq(ExecCat(rfs, cmd), HasText)
     IN /\ ~Parses(content)
        /\ cmdLog' = Append(cmdLog, cmd)
  /\ gsRet' = OnReadError
  /\ gpc' = "returned"
  /\ logged' = logged \cup {<<"error", "get_job_status">>}
  /\ UNCHANGED <<rfs, op, arg, idx, ret, done, rfs0, gsJob, gsIdx, gsSeenAbsent,
                 waitVars, dlVars, subVars, envVars, connVars, raised, guiVars>>

\* exec_command or the read of stdout raises: except, logger.error,
\* return None
StatusRaises ==
  /\ gpc = "probing"
  /\ gsIdx \in 1..Len(Statuses)
  /\ gsRet' = OnReadError
  /\ gpc' = "returned"
  /\ logged' = logged \cup {<<"error", "get_job_status">>}
  /\ UNCHANGED <<rfs, callVars, gsJob, gsIdx, gsSeenAbsent, waitVars, dlVars,
                 subVars, envVars, connVars, raised, guiVars>>

\* after the loop: return None
StatusAbsent ==
  /\ gpc = "probing"
  /\ gsIdx = Len(Statuses) + 1
  /\ gsRet' = None
  /\ gpc' = "returned"
  /\ UNCHANGED <<rfs, callVars, gsJob, gsIdx, gsSeenAbsent, waitVars, dlVars,
                 subVars, envVars, connVars, logVars, guiVars>>

\* the client calls get_job_status(j)
StatusCall(j) ==
  /\ op = "idle"
  /\ op' = "status"
  /\ arg' = j
  /\ cmdLog' = <<>>
  /\ GsBegin(j)
  /\ UNCHANGED <<rfs, rfs0, idx, ret, done, waitVars, dlVars, subVars, envVars, connVars, logVars, guiVars>>

\* and gets its result
StatusReturn ==
  /\ op = "status" /\ ~done
  /\ gpc = "returned"
  /\ ret' = gsRet
  /\ done' = TRUE
  /\ gpc' = "idle"
  /\ UNCHANGED <<rfs, op, arg, idx, cmdLog, rfs0, gsJob, gsIdx, gsRet,
                 gsSeenAbsent, waitVars, dlVars, subVars, envVars, connVars, logVars, guiVars>>

\* ------------------------------------------------------------ cleanup_job
\* the two commands of cleanup_job, for job_id j
CleanupAllStatusDirs(j) ==
  << <<"rm", " ", "-rf", " ">> \o server_base_path \o <<"/", "results", "/">> \o j,
     <<"rm", " ", "-f", " ">> \o server_base_path
        \o <<"/", "jobs", "/", "completed", "/">> \o j \o <<".json">>,
     <<"rm", " ", "-f", " ">> \o server_base_path
        \o <<"/", "jobs", "/", "failed", "/">> \o j \o <<".json">> >>
CleanupAndCancel(j) ==
  << <<"rm", " ", "-rf", " ">> \o server_base_path \o <<"/", "results", "/">> \o j,
     <<"rm", " ", "-f", " ">> \o server_base_path
        \o <<"/", "jobs", "/", "completed", "/">> \o j \o <<".json">>,
     <<"scancel", " ", "%i">> >>
CleanupCommands(j) ==
  << <<"rm", " ", "-rf", " ">> \o server_base_path \o <<"/", "results", "/">> \o j,
     <<"rm", " ", "-f", " ">> \o server_base_path
        \o <<"/", "jobs", "/", "completed", "/">> \o j \o <<".json">> >>

\* rm -f / rm -rf of one operand: "." and ".." as last component and the root
\* are refused, a name that resolves to nothing is ignored, a directory goes
\* with its subtree and only under -r
RmOne(fs, a, recursive) ==
  LET comps == SelectSeq(Split(a, "/"), NonEmpty)
      r == Resolve(fs, a)
  IN IF comps = <<>> \/ Last(comps) \in {<<".">>, <<".", ".">>} THEN fs
     ELSE IF ~r.ok \/ ~Exists(fs, r.path) \/ r.path = <<>> THEN fs
     ELSE IF IsDir(fs, r.path)
            THEN IF recursive THEN Without(fs, Subtree(fs, r.path)) ELSE fs
     ELSE Without(fs, {r.path})
RECURSIVE RmAll(_, _, _)
RmAll(fs, args, recursive) ==
  IF args = <<>> THEN fs
  ELSE RmAll(RmOne(fs, Head(args), recursive), Tail(args), recursive)
ExecRm(fs, cmd) == RmAll(fs, PathArgs(cmd), <<"-rf">> = Words(cmd)[2])

CleanupCall(j) ==
  /\ op = "idle"
  /\ op' = "cleanup"
  /\ arg' = j
  /\ idx' = 1
  /\ cmdLog' = <<>>
  /\ UNCHANGED <<rfs, rfs0, ret, done, gsVars, waitVars, dlVars, subVars, envVars, connVars, logVars, guiVars>>

\* for cmd in commands: exec_command(cmd); stderr is only logged
CleanupExec ==
  /\ op = "cleanup" /\ ~done
  /\ idx \in 1..Len(CleanupCommands(arg))
  /\ CanExec
  /\ LET cmd == CleanupCommands(arg)[idx]
     IN /\ rfs' = ExecRm(rfs, cmd)
        /\ cmdLog' = Append(cmdLog, cmd)
  /\ idx' = idx + 1
  /\ UNCHANGED <<op, arg, ret, done, rfs0, gsVars, waitVars, dlVars, subVars, envVars, connVars, logVars, guiVars>>

\* if error: logger.warning(...), and the loop goes on
StopAfterWarning(i) == Len(CleanupCommands(<<>>)) + 1
AfterWarning(i) == i + 1

\* the command fails on the server and says so on stderr (nothing removed):
\* logger.warning, on to the next command
CleanupWarns ==
  /\ op = "cleanup" /\ ~done
  /\ idx \in 1..Len(CleanupCommands(arg))
  /\ CanExec
  /\ cmdLog' = Append(cmdLog, CleanupCommands(arg)[idx])
  /\ logged' = logged \cup {<<"warning", "cleanup_job">>}
  /\ idx' = AfterWarning(idx)
  /\ UNCHANGED <<rfs, op, arg, ret, done, rfs0, gsVars, waitVars, dlVars,
                 subVars, envVars, connVars, raised, guiVars>>

\* exec_command or the read of stderr raises: except, logger.error,
\* return False
CleanupRaises ==
  /\ op = "cleanup" /\ ~done
  /\ idx \in 1..Len(CleanupCommands(arg))
  /\ ret' = FALSE
  /\ done' = TRUE
  /\ logged' = logged \cup {<<"error", "cleanup_job">>}
  /\ UNCHANGED <<rfs, op, arg, idx, cmdLog, rfs0, gsVars, waitVars, dlVars,
                 subVars, envVars, connVars, raised, guiVars>>

\* return True
CleanupReturn ==
  /\ op = "cleanup" /\ ~done
  /\ idx = Len(CleanupCommands(arg)) + 1
  /\ ret' = TRUE
  /\ done' = TRUE
  /\ UNCHANGED <<rfs, op, arg, idx, cmdLog, rfs0, gsVars, waitVars, dlVars, subVars, envVars, connVars, logVars, guiVars>>

\* ------------------------------------------------------- download_results
\* remote_path = f"{self.server_base_path}/results/{job_id}"
RemotePath(j) == server_base_path \o <<"/", "results", "/">> \o j
LsCommand(j) == <<"ls", " ", "-la", " ">> \o RemotePath(j)
FindCommand(j) == <<"find", " ">> \o RemotePath(j) \o <<" ", "-type", " ", "f">>

\* stderr of ls holds "No such file" when an operand names nothing
LsNeverMissing(fs, cmd) == FALSE
LsMissing(fs, cmd) ==
  \E i \in 1..Len(PathArgs(cmd)) : ~Names(fs, PathArgs(cmd)[i])

RECURSIVE JoinPath(_)
JoinPath(comps) ==
  IF comps = <<>> THEN <<>>
  ELSE IF Len(comps) = 1 THEN comps[1]
  ELSE comps[1] \o <<"/">> \o JoinPath(Tail(comps))
\* the starting points of a find command: the words before its first test
RECURSIVE Before(_, _)
Before(ws, stop) ==
  IF ws = <<>> \/ Head(ws) = stop THEN <<>>
  ELSE <<Head(ws)>> \o Before(Tail(ws), stop)
FindRoots(cmd) == Before(Tail(Words(cmd)), <<"-type">>)
\* stdout of find <roots> -type f, as a set of lines
FindUnder(fs, a) ==
  LET r == Resolve(fs, a)
  IN IF ~r.ok \/ ~Exists(fs, r.path) THEN {}
     ELSE IF IsFile(fs, r.path) THEN {a}
     ELSE {(IF Last(a) = "/" THEN a ELSE a \o <<"/">>)
              \o JoinPath(SubSeq(q, Len(r.path) + 1, Len(q)))
             : q \in {q \in Subtree(fs, r.path) : IsFile(fs, q)}}
FindOut(fs, cmd) ==
  UNION {FindUnder(fs, FindRoots(cmd)[i]) : i \in 1..Len(FindRoots(cmd))}

\* str.strip()
RECURSIVE LStrip(_)
LStrip(s) == IF s # <<>> /\ Head(s) = " " THEN LStrip(Tail(s)) ELSE s
RECURSIVE RStrip(_)
RStrip(s) == IF s # <<>> /\ Last(s) = " " THEN RStrip(Front(s)) ELSE s
Strip(s) == RStrip(LStrip(s))
\* str.replace(pat, ""): every occurrence, left to right
RECURSIVE RemoveAll(_, _)
RemoveAll(s, pat) ==
  IF Len(s) < Len(pat) THEN s
  ELSE IF SubSeq(s, 1, Len(pat)) = pat
         THEN RemoveAll(SubSeq(s, Len(pat) + 1, Len(s)), pat)
  ELSE <<Head(s)>> \o RemoveAll(Tail(s), pat)
\* rel_path = remote_file.replace(f"{remote_path}/", "")
RelPath(remote_file, j) == RemoveAll(remote_file, RemotePath(j) \o <<"/">>)
\* local_file = local_dir / rel_path, as the path below local_dir
PathPart(c) == c # <<>> /\ c # <<".">>
LocalFile(rel) == SelectSeq(Split(rel, "/"), PathPart)
\* parents can be made and the file opened for writing
RefuseExisting(fs, key) ==
  /\ key # <<>>
  /\ \A k \in DOMAIN fs : ~IsPrefix(k, key) /\ ~IsPrefix(key, k)
LocalWritable(fs, key) ==
  /\ key # <<>>
  /\ \A k \in DOMAIN fs : ~(IsPrefix(k, key) /\ k # key)
  /\ \A k \in DOMAIN fs : ~(IsPrefix(key, k) /\ k # key)
NoFiles == [k \in {} |-> Blob(0)]
Truncated == Blob(0)
Put(fs, key, data) == [k \in DOMAIN fs \cup {key} |-> IF k = key THEN data ELSE fs[k]]

\* the order in which find lists the files of a tree: left open by the
\* remote system, the same for every listing of an unchanged tree
RECURSIVE Enumerate(_)
Enumerate(S) ==
  IF S = {} THEN <<>>
  ELSE LET x == CHOOSE x \in S : TRUE IN <<x>> \o Enumerate(S \ {x})
Reverse(q) == [i \in 1..Len(q) |-> q[Len(q) + 1 - i]]
FindOrders == {"forward", "backward"}
FindLines(fs, cmd, order) ==
  IF order = "forward" THEN Enumerate(FindOut(fs, cmd))
  ELSE Reverse(Enumerate(FindOut(fs, cmd)))

DownloadCall(j) ==
  /\ op = "idle"
  /\ op' = "download"
  /\ arg' = j
  /\ cmdLog' = <<>>
  /\ dpc' = "mkdir"
  /\ UNCHANGED <<rfs, rfs0, idx, ret, done, gsVars, waitVars, subVars, envVars, connVars, logVars, guiVars,
                 lfs, localDir, sftpOpen, sftpOpens, remote_files,
                 downloaded_count, copied, findOrder, firstRun, faulted>>

\* local_dir.mkdir(parents=True, exist_ok=True)
DlMkdir ==
  /\ op = "download" /\ dpc = "mkdir"
  /\ localDir' = TRUE
  /\ dpc' = "ls"
  /\ UNCHANGED <<rfs, callVars, gsVars, waitVars, subVars, envVars, connVars, logVars, guiVars,
                 lfs, sftpOpen, sftpOpens, remote_files,
                 downloaded_count, copied, findOrder, firstRun, faulted>>

\* exec_command(f"ls -la {remote_path}"); "No such file" in stderr: return False
DlLs ==
  /\ op = "download" /\ dpc = "ls"
  /\ CanExec
  /\ cmdLog' = Append(cmdLog, LsCommand(arg))
  /\ IF LsMissing(rfs, LsCommand(arg))
       THEN ret' = FALSE /\ done' = TRUE /\ dpc' = "done"
       ELSE dpc' = "find" /\ UNCHANGED <<ret, done>>
  /\ UNCHANGED <<rfs, op, arg, idx, rfs0, gsVars, waitVars, subVars, envVars, connVars, logVars, guiVars,
                 lfs, localDir, sftpOpen, sftpOpens, remote_files,
                 downloaded_count, copied, findOrder, firstRun, faulted>>

\* remote_files = find output lines; none: return False
DlFind ==
  /\ op = "download" /\ dpc = "find"
  /\ CanExec
  /\ cmdLog' = Append(cmdLog, FindCommand(arg))
  /\ LET out == FindLines(rfs, FindCommand(arg), findOrder)
     IN /\ remote_files' = out
        /\ IF out = <<>>
             THEN ret' = FALSE /\ done' = TRUE /\ dpc' = "done"
             ELSE dpc' = "open" /\ UNCHANGED <<ret, done>>
  /\ UNCHANGED <<rfs, op, arg, idx, rfs0, gsVars, waitVars, subVars, envVars, connVars, logVars, guiVars,
                 lfs, localDir, sftpOpen, sftpOpens,
                 downloaded_count, copied, findOrder, firstRun, faulted>>

\* sftp = self.compute_client.open_sftp(); downloaded_count = 0
DlOpen ==
  /\ op = "download" /\ dpc = "open"
  /\ CanExec
  /\ sftpOpen' = TRUE
  /\ sftpOpens' = sftpOpens + 1
  /\ downloaded_count' = 0
  /\ dpc' = "loop"
  /\ UNCHANGED <<rfs, callVars, gsVars, waitVars, subVars, envVars, connVars, logVars, guiVars,
                 lfs, localDir, remote_files, copied, findOrder, firstRun,
                 faulted>>

\* exec_command, the read of its output or open_sftp raises: the outer
\* except, logger.error, return False
DlRaises ==
  /\ op = "download" /\ dpc \in {"ls", "find", "open"}
  /\ ret' = FALSE
  /\ done' = TRUE
  /\ dpc' = "done"
  /\ logged' = logged \cup {<<"error", "download_results">>}
  /\ UNCHANGED <<rfs, op, arg, idx, cmdLog, rfs0, gsVars, waitVars, subVars,
                 envVars, connVars, raised, guiVars,
                 lfs, localDir, sftpOpen, sftpOpens, remote_files,
                 downloaded_count, copied, findOrder, firstRun, faulted>>

\* the remote file can be read and the local file written
CanCopy(remote_file, local_file) ==
  /\ remote_file # <<>>
  /\ Resolve(rfs, remote_file).ok
  /\ IsFile(rfs, Resolve(rfs, remote_file).path)
  /\ LocalWritable(lfs, local_file)

\* one pass of the for loop, for the next line: the file is copied, or the
\* transfer raises with the local file not opened yet, or raises after the
\* local file was opened for writing (left truncated)
DlGet(outcome) ==
  /\ op = "download" /\ dpc = "loop"
  /\ remote_files # <<>>
  /\ remote_files' = Tail(remote_files)
  /\ LET f == Head(remote_files)
         remote_file == Strip(f)
         local_file == LocalFile(RelPath(remote_file, arg))
         r == Resolve(rfs, remote_file)
     IN /\ CASE outcome = "copied" ->
                  /\ CanCopy(remote_file, local_file)
                  /\ lfs' = Put(lfs, local_file, rfs[r.path].data)
                  /\ downloaded_count' = downloaded_count + 1
                  /\ copied' = copied \cup {f}
             [] outcome = "error" ->
                  /\ UNCHANGED <<lfs, downloaded_count, copied>>
             [] outcome = "truncated" ->
                  /\ remote_file # <<>>
                  /\ LocalWritable(lfs, local_file)
                  /\ lfs' = Put(lfs, local_file, Truncated)
                  /\ UNCHANGED <<downloaded_count, copied>>
        /\ faulted' = (faulted \/ (outcome # "copied"
                                     /\ CanCopy(remote_file, local_file)))
  /\ UNCHANGED <<rfs, callVars, gsVars, waitVars, subVars, envVars, connVars, logVars, guiVars,
                 dpc, localDir, sftpOpen, sftpOpens, findOrder, firstRun>>

\* finally: sftp.close(), whatever the loop has copied: the sub-channel is
\* open afterwards or not
CloseOnSuccess(count) == count = 0
AfterFinally(count) == FALSE
\* finally: sftp.close(); return downloaded_count > 0
DlClose ==
  /\ op = "download" /\ dpc = "loop"
  /\ remote_files = <<>>
  /\ sftpOpen' = AfterFinally(downloaded_count)
  /\ ret' = (downloaded_count > 0)
  /\ done' = TRUE
  /\ dpc' = "done"
  /\ UNCHANGED <<rfs, op, arg, idx, cmdLog, rfs0, gsVars, waitVars, subVars, envVars, connVars, logVars, guiVars,
                 lfs, localDir, sftpOpens, remote_files, downloaded_count,
                 copied, findOrder, firstRun, faulted>>

\* the caller runs download_results(job_id, local_dir) once more, with the
\* same arguments
DownloadAgain ==
  /\ op = "download" /\ done
  /\ firstRun = None
  /\ firstRun' = [ret |-> ret, lfs |-> lfs]
  /\ done' = FALSE
  /\ ret' = None
  /\ cmdLog' = <<>>
  /\ dpc' = "mkdir"
  /\ copied' = {}
  /\ UNCHANGED <<rfs, op, arg, idx, rfs0, gsVars, waitVars, subVars, envVars, connVars, logVars, guiVars,
                 lfs, localDir, sftpOpen, sftpOpens, remote_files,
                 downloaded_count, findOrder, faulted>>

\* ------------------------------------------------------------- submit_job
\* job_id = f"{function}_{now:%Y%m%d_%H%M%S}_{uuid4().hex[:8]}": an id that
\* no submitter has drawn before
AnyId(used) == ExistingJobs
FreshIds(used) == ExistingJobs \ used
\* username, password = self.auth_manager.get_credentials()
Credentials == [username |-> "user", password |-> "secret"]
\* parameters['credentials'] = {'username': username, 'password': password}
WithCredentials(parameters, cred) ==
  [k \in DOMAIN parameters \cup {"credentials"} |->
     IF k = "credentials" THEN cred ELSE parameters[k]]
\* the item assignment works on the dict the caller passed, no copy is
\* taken: what the caller's object holds after it
UpdatesCopy(parameters, cred) == parameters
CallerSees(parameters, cred) == WithCredentials(parameters, cred)
\* job_data = {'job_id', 'function', 'parameters', 'status': 'pending',
\* 'submitted_time'}; function, parameters and the time are the document's
\* part beside job_id and status
JobData(j, function, parameters) ==
  JobDoc(j, "pending",
         [function |-> function,
          parameters |-> WithCredentials(parameters, Credentials)])
\* remote_path = f"{self.server_base_path}/jobs/pending/{job_filename}"
RunningPath(j) ==
  server_base_path \o <<"/", "jobs", "/", "running", "/">> \o j \o <<".json">>
PendingPath(j) ==
  server_base_path \o <<"/", "jobs", "/", "pending", "/">> \o j \o <<".json">>
\* sh: echo '...' > path creates or rewrites the file when its directory is there
ExecRedirect(fs, path, data) ==
  LET r == Resolve(fs, path)
  IN IF r.ok /\ r.path # <<>> /\ IsDir(fs, Parent(r.path)) /\ ~IsDir(fs, r.path)
       THEN [p \in DOMAIN fs \cup {r.path} |->
               IF p = r.path THEN File(data) ELSE fs[p]]
       ELSE fs
RedirectFails(fs, path) ==
  LET r == Resolve(fs, path)
  IN ~(r.ok /\ r.path # <<>> /\ IsDir(fs, Parent(r.path)) /\ ~IsDir(fs, r.path))

\* the call, up to the remote command: job id, credentials, job_data
SubmitCall(j, function, parameters) ==
  /\ op = "idle"
  /\ j \in FreshIds(issued)
  /\ issued' = issued \cup {j}
  /\ op' = "submit"
  /\ arg' = [function |-> function, parameters |-> parameters]
  /\ job_data' = JobData(j, function, parameters)
  /\ caller_parameters' = CallerSees(parameters, Credentials)
  /\ cmdLog' = <<>>
  /\ guardLog' = <<>>
  /\ stderr_content' = ""
  /\ spc' = "write"
  /\ UNCHANGED <<rfs, rfs0, idx, ret, done, workers, otherSawZero, started, gsVars,
                 waitVars, dlVars, connVars, logVars, guiVars>>

\* what the one remote write command can come to:
\*   written    the file is written, stderr is empty
\*   refused    the shell cannot create the file and says so on stderr
\*   warned     the file is written and stderr holds a warning
\*   truncated  the file is created, the write fails (stderr), it stays empty
\*   lost       exec_command raises before the command runs
\*   dropped    the command runs, reading its stderr raises
WriteOutcomes ==
  {"written", "refused", "warned", "truncated", "lost", "dropped"}
\* exec_command(f"echo '{job_content}' > {remote_path}"); stderr: return None;
\* except: return None
StderrIgnored(o) == IF o \in {"lost", "dropped"} THEN "done" ELSE "squeue"
GuardSkipped(o) == IF o = "written" THEN "return" ELSE "done"
\* if stderr_content: return None
WriteFollowedBy(o) == IF o = "written" THEN "squeue" ELSE "done"
SubmitWrite(o) ==
  /\ op = "submit" /\ spc = "write"
  /\ LET path == PendingPath(job_data.job_id)
     IN /\ cmdLog' = IF CanExec
                       THEN Append(cmdLog, <<"echo", " ", ">", " ">> \o path)
                       ELSE cmdLog
        /\ o # "lost" => CanExec
        /\ o = "refused" => RedirectFails(rfs, path)
        /\ RedirectFails(rfs, path) => o \in {"refused", "lost"}
        /\ rfs' = CASE o \in {"written", "warned", "dropped"} ->
                         ExecRedirect(rfs, path, job_data)
                    [] o = "truncated" -> ExecRedirect(rfs, path, Truncated)
                    [] OTHER -> rfs
  /\ stderr_content' = IF o \in {"refused", "warned", "truncated"} THEN "error" ELSE ""
  /\ spc' = WriteFollowedBy(o)
  /\ IF spc' = "done"
       THEN ret' = None /\ done' = TRUE
       ELSE UNCHANGED <<ret, done>>
  /\ UNCHANGED <<op, arg, idx, rfs0, job_data, guardLog, envVars, gsVars,
                 waitVars, dlVars, connVars, logVars, guiVars, caller_parameters>>

\* _ensure_processor_running: running_jobs = int(squeue ... | wc -l); the
\* count is read, or cannot be parsed, or exec_command raises (both caught)
SqueueCount == <<"squeue", " ", "-h", " ", "|", " ", "wc", " ", "-l">>
SqueueOutcomes == {"count", "garbled", "raised"}
AlwaysSbatch(o, n) == "sbatch"
AfterSqueue(o, n) == IF o = "count" /\ n = 0 THEN "sbatch" ELSE "return"
SubmitSqueue(o) ==
  /\ op = "submit" /\ spc = "squeue"
  /\ o # "raised" => CanExec
  /\ cmdLog' = Append(cmdLog, SqueueCount)
  /\ guardLog' = Append(guardLog,
                        IF o # "count" THEN o
                        ELSE IF workers = 0 THEN "zero" ELSE "some")
  /\ spc' = AfterSqueue(o, workers)
  /\ UNCHANGED <<rfs, op, arg, idx, ret, done, rfs0, job_data, stderr_content,
                 envVars, gsVars, waitVars, dlVars, connVars, logVars, guiVars, caller_parameters>>

\* if running_jobs == 0: cd base && sbatch sbatch/process_job.sbatch; the
\* scheduler takes the job ("Submitted batch job"), or answers something
\* else and starts nothing (warning), or exec_command raises (caught)
SbatchCommand ==
  <<"cd", " ">> \o server_base_path
    \o <<" ", "&&", " ", "sbatch", " ", "sbatch", "/", "process_job.sbatch">>
SbatchOutcomes == {"submitted", "other", "raised"}
SubmitSbatch(o) ==
  /\ op = "submit" /\ spc = "sbatch"
  /\ o # "raised" => CanExec
  /\ cmdLog' = Append(cmdLog, SbatchCommand)
  /\ guardLog' = Append(guardLog, o)
  /\ o = "submitted" => IsFile(rfs, ScriptNode) /\ workers < MaxWorkers
  /\ workers' = IF o = "submitted" THEN workers + 1 ELSE workers
  /\ spc' = "return"
  /\ started' = IF o = "submitted" THEN started + 1 ELSE started
  /\ UNCHANGED <<rfs, op, arg, idx, ret, done, rfs0, job_data, stderr_content,
                 issued, otherSawZero, gsVars, waitVars, dlVars, connVars, logVars, guiVars, caller_parameters>>

\* a str as a returned value, beside None
Str(s) == [str |-> s]
\* return job_id
GuardFailureFails(log) ==
  IF log \in {<<"zero", "submitted">>, <<"some">>}
    THEN Str(job_data.job_id) ELSE None
ReturnValue(log) == Str(job_data.job_id)
SubmitReturn ==
  /\ op = "submit" /\ spc = "return"
  /\ ret' = ReturnValue(guardLog)
  /\ done' = TRUE
  /\ spc' = "done"
  /\ UNCHANGED <<rfs, op, arg, idx, cmdLog, rfs0, job_data, stderr_content,
                 guardLog, envVars, gsVars, waitVars, dlVars, connVars, logVars, guiVars, caller_parameters>>

\* ---------------------------------------------------------------- connect
\* connect(): the gateway hop, then the compute hop through it; True, or on
\* any exception logger.error and False, with the clients as far as made
\* (a client made but not connected raises on use like a closed one)
ConnectOutcomes ==
  {"connected", "gateway_failed", "channel_failed", "compute_failed"}
\* the gateway client after connect(): the except clause closes nothing, a
\* gateway hop that succeeded stays open when a later step fails
GatewayClosedOnFailure(o) == IF o = "connected" THEN "open" ELSE "closed"
GatewayAfter(o) == IF o = "gateway_failed" THEN "closed" ELSE "open"
Connect(o) ==
  /\ op = "idle"
  /\ gateway_client = "None" /\ compute_client = "None"
  /\ op' = "connect"
  /\ arg' = <<>>
  /\ cmdLog' = <<>>
  /\ gateway_client' = GatewayAfter(o)
  /\ compute_client' = CASE o = "connected" -> "open"
                          [] o = "compute_failed" -> "closed"
                          [] OTHER -> compute_client
  /\ ret' = (o = "connected")
  /\ done' = TRUE
  /\ logged' = IF o = "connected" THEN logged
               ELSE logged \cup {<<"error", "connect">>}
  /\ UNCHANGED <<rfs, rfs0, idx, gsVars, waitVars, dlVars, subVars, envVars,
                 dcpc, job_ids, raised, guiVars, orphans>>

\* connect() on a communicator that an earlier connect() has left its
\* client objects on: self.gateway_client = paramiko.SSHClient() replaces
\* the old gateway object, self.compute_client = paramiko.SSHClient() (when
\* the call gets that far) the old compute object; neither is closed first,
\* and a replaced object that was connected stays connected, with nothing
\* in the communicator referring to it
Reconnect(o) ==
  /\ op = "idle"
  /\ gateway_client # "None"
  /\ orphans.gateway < MaxOrphans
  /\ op' = "connect"
  /\ arg' = <<>>
  /\ cmdLog' = <<>>
  /\ gateway_client' = GatewayAfter(o)
  /\ compute_client' = CASE o = "connected" -> "open"
                          [] o = "compute_failed" -> "closed"
                          [] OTHER -> compute_client
  /\ orphans' =
       [gateway |-> IF gateway_client = "open"
                      THEN orphans.gateway + 1 ELSE orphans.gateway,
        compute |-> IF compute_client = "open"
                         /\ o \in {"connected", "compute_failed"}
                      THEN orphans.compute + 1 ELSE orphans.compute]
  /\ ret' = (o = "connected")
  /\ done' = TRUE
  /\ logged' = IF o = "connected" THEN logged
               ELSE logged \cup {<<"error", "connect">>}
  /\ UNCHANGED <<rfs, rfs0, idx, gsVars, waitVars, dlVars, subVars, envVars,
                 dcpc, job_ids, raised, guiVars>>

\* a client object nothing refers to is closed when the runtime collects
\* it, at a time the program does not choose, or never before the process
\* ends
Collect(k) ==
  /\ orphans[k] > 0
  /\ orphans' = [orphans EXCEPT ![k] = @ - 1]
  /\ UNCHANGED <<rfs, callVars, gsVars, waitVars, dlVars, subVars, envVars,
                 gateway_client, compute_client, dcpc, job_ids, logVars,
                 guiVars>>

\* ------------------------------------------------------------- disconnect
\* disconnect(): self.cleanup_server_jobs() first
SkipCleaner == "close_compute"
DisconnectFirst == "query"
DisconnectCall ==
  /\ op = "idle"
  /\ op' = "disconnect"
  /\ arg' = <<>>
  /\ cmdLog' = <<>>
  /\ dcpc' = DisconnectFirst
  /\ UNCHANGED <<rfs, rfs0, idx, ret, done, gsVars, waitVars, dlVars, subVars,
                 envVars, gateway_client, compute_client, job_ids, logVars, guiVars, orphans>>

\* cleanup_server_jobs: no compute client: return True; else
\* job_ids = squeue -u vdidur -n satproc_job -h -o '%i'  (on a closed client
\* exec_command raises: except, return False)
SqueueIds == <<"squeue", " ", "-h", " ", "-o", " ", "%i">>
DiscQuery ==
  /\ op = "disconnect" /\ dcpc = "query"
  /\ IF compute_client = "open"
       THEN /\ cmdLog' = Append(cmdLog, SqueueIds)
            /\ job_ids' = workers
            /\ idx' = 1
            /\ dcpc' = "cancel"
            /\ UNCHANGED logged
       ELSE /\ dcpc' = "close_compute"
            /\ logged' = IF compute_client = "None" THEN logged
                         ELSE logged \cup {<<"error", "cleanup_server_jobs">>}
            /\ UNCHANGED <<cmdLog, job_ids, idx>>
  /\ UNCHANGED <<rfs, op, arg, ret, done, rfs0, gsVars, waitVars, dlVars,
                 subVars, envVars, gateway_client, compute_client, raised,
                 guiVars, orphans>>

\* the query or a cancel raises: except, logger.error, return False, back
\* in disconnect
DiscRaises ==
  /\ op = "disconnect" /\ dcpc \in {"query", "cancel"}
  /\ CanExec
  /\ dcpc = "cancel" => idx <= job_ids
  /\ dcpc' = "close_compute"
  /\ logged' = logged \cup {<<"error", "cleanup_server_jobs">>}
  /\ UNCHANGED <<rfs, callVars, gsVars, waitVars, dlVars, subVars, envVars,
                 gateway_client, compute_client, job_ids, raised, guiVars, orphans>>

\* for job_id in job_ids: exec_command(f"scancel {job_id}")
ScancelCommand == <<"scancel", " ", "%i">>
DiscCancel ==
  /\ op = "disconnect" /\ dcpc = "cancel"
  /\ idx <= job_ids
  /\ cmdLog' = Append(cmdLog, ScancelCommand)
  /\ workers' = IF workers > 0 THEN workers - 1 ELSE 0
  /\ idx' = idx + 1
  /\ UNCHANGED <<rfs, op, arg, ret, done, rfs0, gsVars, waitVars, dlVars,
                 subVars, issued, otherSawZero, started, connVars, logVars, guiVars>>

\* the loop is over: return True, back in disconnect
DiscCancelled ==
  /\ op = "disconnect" /\ dcpc = "cancel"
  /\ idx = job_ids + 1
  /\ dcpc' = "close_compute"
  /\ UNCHANGED <<rfs, callVars, gsVars, waitVars, dlVars, subVars, envVars,
                 gateway_client, compute_client, job_ids, logVars, guiVars, orphans>>

\* if self.compute_client: self.compute_client.close()
DiscCloseCompute ==
  /\ op = "disconnect" /\ dcpc = "close_compute"
  /\ compute_client' = IF compute_client = "None" THEN "None" ELSE "closed"
  /\ dcpc' = "close_gateway"
  /\ UNCHANGED <<rfs, callVars, gsVars, waitVars, dlVars, subVars, envVars,
                 gateway_client, job_ids, logVars, guiVars, orphans>>

\* if self.gateway_client: self.gateway_client.close()
DiscCloseGateway ==
  /\ op = "disconnect" /\ dcpc = "close_gateway"
  /\ gateway_client' = IF gateway_client = "None" THEN "None" ELSE "closed"
  /\ dcpc' = "done"
  /\ done' = TRUE
  /\ UNCHANGED <<rfs, op, arg, idx, ret, cmdLog, rfs0, gsVars, waitVars,
                 dlVars, subVars, envVars, compute_client, job_ids, logVars, guiVars, orphans>>

\* ------------------------------------------ wait_for_job on the real queue
\* the client calls wait_for_job(j, timeout=t, progress_callback=...)
WaitCall(j, t, h) ==
  /\ op = "idle"
  /\ op' = "wait"
  /\ arg' = j
  /\ cmdLog' = <<>>
  /\ timeout' = t /\ hasHook' = h /\ wpc' = "test" /\ clock' = 0
  /\ status' = None /\ last_status' = None /\ result' = None
  /\ hookLog' = <<>> /\ pollLog' = <<>> /\ sleeps' = 0 /\ iterCost' = 0
  /\ uiMsg' = NoMsg
  /\ UNCHANGED <<rfs, rfs0, idx, ret, done, gsVars, dlVars, subVars, envVars, connVars, logVars, guiVars>>

\* status = self.get_job_status(job_id): the call ...
WaitPollCall ==
  /\ op = "wait" /\ wpc = "poll"
  /\ GsBegin(arg)
  /\ wpc' = "polling"
  /\ UNCHANGED <<timeout, hasHook, clock, status, last_status, result, hookLog,
                 pollLog, sleeps, iterCost, uiMsg>>
  /\ UNCHANGED <<rfs, callVars, dlVars, subVars, envVars, connVars, logVars, guiVars>>

\* ... and its return, c seconds later
WaitPollReturn(c) ==
  /\ op = "wait" /\ wpc = "polling"
  /\ gpc = "returned"
  /\ PollResult(gsRet, c)
  /\ gpc' = "idle"
  /\ UNCHANGED <<rfs, callVars, gsJob, gsIdx, gsRet, gsSeenAbsent, dlVars,
                 subVars, envVars, connVars, logVars, guiVars>>

\* the caller has its answer and is free for its next call: the operation's
\* locals are gone, the server and the session stay as they are
CallReset ==
  /\ op' = "idle" /\ arg' = <<>> /\ idx' = 0 /\ ret' = None /\ done' = FALSE
  /\ cmdLog' = <<>>
  /\ gpc' = "idle" /\ gsJob' = <<>> /\ gsIdx' = 0 /\ gsRet' = None
  /\ gsSeenAbsent' = FALSE
  /\ timeout' = 0 /\ hasHook' = FALSE /\ wpc' = "idle" /\ clock' = 0
  /\ status' = None /\ last_status' = None /\ result' = None
  /\ hookLog' = <<>> /\ pollLog' = <<>> /\ sleeps' = 0 /\ iterCost' = 0
  /\ uiMsg' = NoMsg
  /\ dpc' = "idle" /\ sftpOpen' = FALSE
  /\ sftpOpens' = 0 /\ remote_files' = <<>> /\ downloaded_count' = 0
  /\ firstRun' = None /\ faulted' = FALSE
  /\ spc' = "idle" /\ job_data' = None /\ stderr_content' = ""
  /\ caller_parameters' = None
  /\ guardLog' = <<>>
  /\ logged' = {}
  /\ UNCHANGED <<rfs, rfs0, findOrder, envVars, connVars, raised>>
ClientNext ==
  /\ \/ op \in {"status", "cleanup", "download", "submit", "connect"} /\ done
     \/ op = "wait" /\ WaitFinished
  /\ CallReset
  /\ lfs' = NoFiles /\ localDir' = FALSE /\ copied' = {}
  /\ UNCHANGED guiVars

\* ------------------------------------------------------ the job id
\* n as text of exactly w digits to the base given, zero padded (n < base^w)
DigitChars ==
  <<"0", "1", "2", "3", "4", "5", "6", "7", "8", "9", "a", "b", "c", "d", "e", "f">>
RECURSIVE Digits(_, _, _)
Digits(n, base, w) ==
  IF w = 0 THEN <<>>
  ELSE Append(Digits(n \div base, base, w - 1), DigitChars[(n % base) + 1])
\* datetime.now().strftime('%Y%m%d_%H%M%S')
Strftime(now) ==
  Digits(now.year, 10, 4) \o Digits(now.month, 10, 2) \o Digits(now.day, 10, 2)
    \o <<"_">>
    \o Digits(now.hour, 10, 2) \o Digits(now.minute, 10, 2)
    \o Digits(now.second, 10, 2)
\* uuid.uuid4().hex[:8] of a uuid whose leading 32 bits are n
HexPrefix(n) == Digits(n, 16, SuffixLen)
\* job_id = f"{function}_{...strftime(...)}_{uuid.uuid4().hex[:8]}"
JobIdWithoutSuffix(function, now, n) == function \o <<"_">> \o Strftime(now)
JobId(function, now, n) ==
  function \o <<"_">> \o Strftime(now) \o <<"_">> \o HexPrefix(n)

\* the k-th submission: its job id, from the function name, the clock and
\* the uuid drawn
NewJobId(k, function, now, n) ==
  /\ op = "idle"
  /\ Len(issued) = k - 1
  /\ issued' = Append(issued, [function |-> function, now |-> now, suffix |-> n,
                               job_id |-> JobId(function, now, n)])
  /\ UNCHANGED <<rfs, callVars, gsVars, waitVars, dlVars, subVars, workers,
                 otherSawZero, started, connVars, logVars, guiVars>>

\* ------------------------------------------- the job document as text
\* submit_job and get_job_status again, with the document as the text that
\* travels: json.dumps, the shell's reading of echo '<text>' > path, the
\* file, json.loads. Text is a sequence of characters; words without special
\* characters (keys, "pending") are one element, and so is the pair \"
TextChars == {"a", "'", " ", "\""}
Texts == UNION {[1..n -> TextChars] : n \in 0..MaxTextLen}
\* the job document with its strings as text
TextDoc(j, function, path, username, password, st, time) ==
  [job_id |-> j, function |-> function,
   parameters |-> [path |-> path,
                   credentials |-> [username |-> username,
                                    password |-> password]],
   status |-> st, submitted_time |-> time]
\* job_data of submit_job(function, {'path': path}) with password
TextJob(j, function, path, password) ==
  TextDoc(j, <<function>>, path, <<"user">>, password, <<"pending">>,
          <<"now">>)

\* json.dumps of a string: in double quotes, a double quote inside as \"
\* (a single quote is left as it is)
EscapeChar(c) == IF c = "\"" THEN "\\\"" ELSE c
JsonString(str) ==
  <<"\"">> \o [i \in 1..Len(str) |-> EscapeChar(str[i])] \o <<"\"">>
\* indent=2: a line break and n blanks before every member
Indent(n) == <<"\n">> \o [i \in 1..n |-> " "]
Key(k) == <<"\"", k, "\"", ":", " ">>
\* job_content = json.dumps(job_data, indent=2)
Dumps(doc) ==
  <<"{">>
    \o Indent(2) \o Key("job_id") \o JsonString(doc.job_id) \o <<",">>
    \o Indent(2) \o Key("function") \o JsonString(doc.function) \o <<",">>
    \o Indent(2) \o Key("parameters") \o <<"{">>
    \o Indent(4) \o Key("path") \o JsonString(doc.parameters.path) \o <<",">>
    \o Indent(4) \o Key("credentials") \o <<"{">>
    \o Indent(6) \o Key("username")
    \o JsonString(doc.parameters.credentials.username) \o <<",">>
    \o Indent(6) \o Key("password")
    \o JsonString(doc.parameters.credentials.password)
    \o Indent(4) \o <<"}">>
    \o Indent(2) \o <<"}", ",">>
    \o Indent(2) \o Key("status") \o JsonString(doc.status) \o <<",">>
    \o Indent(2) \o Key("submitted_time") \o JsonString(doc.submitted_time)
    \o Indent(0) \o <<"}">>

\* the remote shell reading the text between echo ' and ' > path: a single
\* quote ends and starts literal text; outside it a double quote starts and
\* ends a string in which only \" is special, \" stands for a double quote,
\* a blank ends the word and a line break ends the command. echo prints its
\* words (an empty quoted one too) with one blank between them.
InWord(st) ==
  IF st.inWord THEN st
  ELSE [st EXCEPT !.out = Append(@, " "), !.inWord = TRUE]
Emit(st, c) == [InWord(st) EXCEPT !.out = Append(@, c)]
\* st after the elements lo..hi of text, one Step(st, c) per element (st is
\* a record; the left half is worked out before the right one is entered)
RECURSIVE Fold(_, _, _, _, _)
Fold(Step(_, _), text, lo, hi, st) ==
  IF lo > hi THEN st
  ELSE IF lo = hi THEN Step(st, text[lo])
  ELSE LET mid == (lo + hi) \div 2
           left == Fold(Step, text, lo, mid, st)
       IN IF DOMAIN left = {} THEN left ELSE Fold(Step, text, mid + 1, hi, left)
Sh(st, c) ==
  CASE st.mode = "single" ->
         IF c = "'" THEN [st EXCEPT !.mode = "none"] ELSE Emit(st, c)
    [] st.mode = "double" ->
         IF c = "\"" THEN [st EXCEPT !.mode = "none"]
         ELSE Emit(st, IF c = "\\\"" THEN "\"" ELSE c)
    [] OTHER ->
         CASE c = "'" -> [InWord(st) EXCEPT !.mode = "single"]
           [] c = "\"" -> [InWord(st) EXCEPT !.mode = "double"]
           [] c = "\\\"" -> Emit(st, "\"")
           [] c = " " -> [st EXCEPT !.inWord = FALSE]
           [] c = "\n" -> [st EXCEPT !.inWord = FALSE, !.split = TRUE]
           [] OTHER -> Emit(st, c)
\* f"echo '{job_content}' > {remote_path}": the text starts inside the
\* opening quote; the closing quote has to find literal text to end
ShellEcho(text) ==
  Fold(Sh, text, 1, Len(text),
       [mode |-> "single", out |-> <<>>, inWord |-> TRUE, split |-> FALSE])
Balanced(text) == ShellEcho(text).mode = "single"

\* json.loads: strings between double quotes with \" inside read as a
\* double quote, blanks and line breaks between the items skipped
Scan(st, c) ==
  IF st.inStr
    THEN IF c = "\""
           THEN [st EXCEPT !.inStr = FALSE, !.cur = <<>>,
                           !.items = Append(@, [str |-> st.cur])]
           ELSE [st EXCEPT !.cur = Append(@, IF c = "\\\"" THEN "\"" ELSE c)]
    ELSE IF c = "\"" THEN [st EXCEPT !.inStr = TRUE]
    ELSE IF c \in {" ", "\n"} THEN st
    ELSE [st EXCEPT !.items = Append(@, [tok |-> c])]
Items(text) ==
  LET st == Fold(Scan, text, 1, Len(text),
                 [inStr |-> FALSE, cur |-> <<>>, items |-> <<>>])
  IN [ok |-> ~st.inStr, items |-> st.items]
\* the items of a job document: all but its seven string values are fixed
Shape(v) == Items(Dumps(TextDoc(v, v, v, v, v, v, v))).items
ValueAt ==
  LET IsValue(i) == Shape(<<>>)[i] # Shape(<<"a">>)[i]
  IN SelectSeq([i \in 1..Len(Shape(<<>>)) |-> i], IsValue)
IsDoc(sc) ==
  /\ sc.ok
  /\ Len(sc.items) = Len(Shape(<<>>))
  /\ \A i \in 1..Len(sc.items) :
       IF \E k \in 1..Len(ValueAt) : ValueAt[k] = i
         THEN "str" \in DOMAIN sc.items[i]
         ELSE sc.items[i] = Shape(<<>>)[i]
Loads(text) ==
  LET sc == Items(text)
      Value(k) == sc.items[ValueAt[k]].str
  IN IF IsDoc(sc)
       THEN TextDoc(Value(1), Value(2), Value(3), Value(4), Value(5),
                    Value(6), Value(7))
       ELSE None

\* submit_job(function, {'path': path}) with the password the
\* auth manager holds, up to the remote command
TextSubmitCall(j, function, path, password) ==
  /\ op = "idle"
  /\ op' = "submit"
  /\ arg' = [function |-> function, parameters |-> [path |-> path]]
  /\ job_data' = TextJob(j, function, path, password)
  /\ caller_parameters' = job_data'.parameters
  /\ spc' = "write"
  /\ cmdLog' = <<>>
  /\ UNCHANGED <<rfs, rfs0, idx, ret, done, stderr_content, guardLog, gsVars,
                 waitVars, dlVars, envVars, connVars, logVars, guiVars>>

\* exec_command(f"echo '{job_content}' > {remote_path}"), stderr read, and
\* the return: a text that leaves a quote open is a syntax error, with
\* nothing run; a text cut by a line break has its last piece run as a
\* command of its own, which fails after the file was or was not emptied
TextSubmitWrite ==
  /\ op = "submit" /\ spc = "write"
  /\ CanExec
  /\ LET path == PendingPath(job_data.job_id)
         text == Dumps(job_data)
         sh == ShellEcho(text)
     IN /\ cmdLog' = Append(cmdLog, <<"echo", " ", ">", " ">> \o path)
        /\ \/ /\ Balanced(text) /\ ~sh.split
              /\ rfs' = ExecRedirect(rfs, path, [text |-> sh.out])
              /\ stderr_content' = ""
           \/ /\ ~Balanced(text) \/ sh.split
              /\ rfs' \in {rfs} \cup
                          (IF Balanced(text)
                             THEN {ExecRedirect(rfs, path, Truncated)} ELSE {})
              /\ stderr_content' = "error"
  /\ ret' = IF stderr_content' = "" THEN Str(job_data.job_id) ELSE None
  /\ done' = TRUE
  /\ spc' = "done"
  /\ UNCHANGED <<op, arg, idx, rfs0, job_data, guardLog, gsVars, waitVars,
                 dlVars, envVars, connVars, logVars, guiVars, caller_parameters>>

\* get_job_status(job_id) on the text: the first directory whose file has
\* text ends the loop with json.loads(content), or with None when that raises
TextStatus ==
  /\ op = "submit" /\ done /\ gpc = "idle"
  /\ CanExec
  /\ LET Content(d) ==
           SelectSeq(ExecCat(rfs, CatCommand(d, job_data.job_id)), HasText)
         found == {i \in 1..Len(Statuses) : Content(Statuses[i]) # <<>>}
         first == CHOOSE i \in found : \A k \in found : i <= k
     IN gsRet' = IF found = {} THEN None
                 ELSE LET content == Content(Statuses[first])
                      IN IF Len(content) = 1 /\ "text" \in DOMAIN content[1]
                           THEN Loads(content[1].text)
                           ELSE OnReadError
  /\ gsJob' = job_data.job_id
  /\ gpc' = "returned"
  /\ UNCHANGED <<rfs, callVars, gsIdx, gsSeenAbsent, waitVars, dlVars, subVars,
                 envVars, connVars, logVars, guiVars>>

\* ------------------------------------------------ the window's job flow
\* on_process: the controls go off and the job thread starts
OnProcess ==
  /\ flow = "idle" /\ closing = "open"
  /\ flow' = "connect"
  /\ UNCHANGED <<rfs, callVars, gsVars, waitVars, dlVars, subVars, envVars,
                 connVars, logVars, current_job_id, closing>>

\* submit_job_to_server, the calls it makes in its order: connect, submit_job,
\* wait_for_job with the hook that does nothing, download_results into
\* output_base / job_id, cleanup_job
FlowJob == current_job_id.str
FlowConnect(o) == flow = "connect" /\ Connect(o)
FlowSubmit(j, function, parameters) ==
  flow = "submit" /\ SubmitCall(j, function, parameters)
FlowWait(t) == flow = "wait" /\ WaitCall(FlowJob, t, TRUE)
FlowDownload == flow = "download" /\ DownloadCall(FlowJob)
FlowCleanup == flow = "cleanup" /\ CleanupCall(FlowJob)

\* ... and what it does with each answer
\* if not self.server_comm.connect(): show_error; return
AfterConnect(r) == IF r = TRUE THEN "submit" ELSE "connect_failed"
\* if not job_id: show_error; return
AfterSubmit(r) == IF r = None THEN "submit_failed" ELSE "wait"
\* if not final_status: "Job timed out"; if final_status['status'] ==
\* 'completed': download; else "Job failed on server"
AfterWaitAnyTerminal(r) == IF r = None THEN "timed_out" ELSE "download"
AfterWait(r) ==
  IF r = None THEN "timed_out"
  ELSE IF r.status = "completed" THEN "download" ELSE "job_failed"
\* if success: show_success, cleanup_job; else "Failed to download results"
AfterDownload(r) == IF r = TRUE THEN "cleanup" ELSE "download_failed"
FlowReturn ==
  /\ \/ op \in {"connect", "submit", "download", "cleanup"} /\ done
     \/ op = "wait" /\ WaitFinished
  /\ flow' = CASE op = "connect" -> AfterConnect(ret)
               [] op = "submit" -> AfterSubmit(ret)
               [] op = "wait" -> AfterWait(result)
               [] op = "download" -> AfterDownload(ret)
               [] op = "cleanup" -> "done"
  /\ current_job_id' = IF op = "submit" THEN ret ELSE current_job_id
  /\ CallReset
  /\ UNCHANGED <<lfs, localDir, copied, closing>>

\* finally: self.window.after(0, self.enable_controls): the job thread is
\* over and the Process button works again, for the next job of the window
FlowEnds ==
  {"done", "connect_failed", "submit_failed", "timed_out", "job_failed",
   "download_failed"}
EnableControls ==
  /\ flow \in FlowEnds
  /\ flow' = "idle"
  /\ UNCHANGED <<rfs, callVars, gsVars, waitVars, dlVars, subVars, envVars,
                 connVars, logVars, current_job_id, closing>>
\* the next job's thread calls self.server_comm.connect() like the first
FlowReconnect(o) == flow = "connect" /\ Reconnect(o)

\* ------------------------------------------------- the window is closed
\* WM_DELETE_WINDOW is bound to on_close and stays bound while the job
\* thread runs (disable_controls turns off the form's widgets only); on_close
\* runs on the GUI thread and takes no lock and joins no thread
\* on_close: hasattr(self, 'server_comm') holds from __init__ on:
\* self.server_comm.disconnect(), which calls cleanup_server_jobs() first
OnClose ==
  /\ closing = "open"
  /\ closing' = "query"
  /\ UNCHANGED <<rfs, callVars, gsVars, waitVars, dlVars, subVars, envVars,
                 connVars, logVars, flow, current_job_id>>

\* cleanup_server_jobs on the GUI thread: no compute client: return True;
\* squeue on the open client gives the ids to cancel; on a closed client
\* exec_command raises: except, logger.error, return False
CloseQuery ==
  /\ closing = "query"
  /\ IF CanExec
       THEN /\ job_ids' = workers
            /\ closing' = "cancel"
            /\ UNCHANGED logged
       ELSE /\ closing' = "close_compute"
            /\ logged' = IF compute_client = "None" THEN logged
                         ELSE logged \cup {<<"error", "cleanup_server_jobs">>}
            /\ UNCHANGED job_ids
  /\ UNCHANGED <<rfs, callVars, gsVars, waitVars, dlVars, subVars, envVars,
                 gateway_client, compute_client, dcpc, raised, flow,
                 current_job_id, orphans>>

\* for job_id in job_ids: exec_command(f"scancel {job_id}"); job_ids counts
\* the ids the loop has still to take
CloseCancel ==
  /\ closing = "cancel"
  /\ job_ids > 0
  /\ job_ids' = job_ids - 1
  /\ workers' = IF workers > 0 THEN workers - 1 ELSE 0
  /\ UNCHANGED <<rfs, callVars, gsVars, waitVars, dlVars, subVars, issued,
                 otherSawZero, started, gateway_client, compute_client, dcpc,
                 logVars, guiVars, orphans>>

\* the loop is over: return True, back in disconnect
CloseCancelled ==
  /\ closing = "cancel"
  /\ job_ids = 0
  /\ closing' = "close_compute"
  /\ UNCHANGED <<rfs, callVars, gsVars, waitVars, dlVars, subVars, envVars,
                 connVars, logVars, flow, current_job_id>>

\* if self.compute_client: self.compute_client.close()
CloseCompute ==
  /\ closing = "close_compute"
  /\ compute_client' = IF compute_client = "None" THEN "None" ELSE "closed"
  /\ closing' = "close_gateway"
  /\ UNCHANGED <<rfs, callVars, gsVars, waitVars, dlVars, subVars, envVars,
                 gateway_client, dcpc, job_ids, logVars, flow, current_job_id, orphans>>

\* if self.gateway_client: self.gateway_client.close(); disconnect returns
CloseGateway ==
  /\ closing = "close_gateway"
  /\ gateway_client' = IF gateway_client = "None" THEN "None" ELSE "closed"
  /\ closing' = "disconnected"
  /\ UNCHANGED <<rfs, callVars, gsVars, waitVars, dlVars, subVars, envVars,
                 compute_client, dcpc, job_ids, logVars, flow, current_job_id, orphans>>

\* self.window.destroy(); the job thread, a daemon thread, goes on
WindowDestroy ==
  /\ closing = "disconnected"
  /\ closing' = "destroyed"
  /\ UNCHANGED <<rfs, callVars, gsVars, waitVars, dlVars, subVars, envVars,
                 connVars, logVars, flow, current_job_id>>

\* ------------------------------------- the other submitters and the worker
\* what the submitters of the queue submit
QueueFunction == "polar_circle"
QueueParameters == <<>>
\* another submitter's submit_job: its write of the pending document
OtherSubmit(j) ==
  /\ j \in FreshIds(issued)
  /\ issued' = issued \cup {j}
  /\ rfs' = ExecRedirect(rfs, PendingPath(j),
                         JobData(j, QueueFunction, QueueParameters))
  /\ UNCHANGED <<workers, otherSawZero, started, subVars, callVars, gsVars, waitVars,
                 dlVars, connVars, logVars, guiVars>>
\* another submitter's _ensure_processor_running: its scheduler query finds
\* no worker ...
OtherSqueue ==
  /\ workers = 0 /\ ~otherSawZero
  /\ otherSawZero' = TRUE
  /\ UNCHANGED <<rfs, workers, issued, started, subVars, callVars, gsVars,
                 waitVars, dlVars, connVars, logVars, guiVars>>
\* ... and then it submits one
OtherSbatch ==
  /\ otherSawZero
  /\ workers < MaxWorkers
  /\ workers' = workers + 1
  /\ otherSawZero' = FALSE
  /\ UNCHANGED <<rfs, issued, started, subVars, callVars, gsVars, waitVars,
                 dlVars, connVars, logVars, guiVars>>
\* another submitter's cleanup_job(j): one of its commands
OtherCleanup(j, i) ==
  /\ j \in issued
  /\ rfs' = ExecRm(rfs, CleanupCommands(j)[i])
  /\ rfs' # rfs
  /\ UNCHANGED <<subVars, envVars, callVars, gsVars, waitVars, dlVars, connVars, logVars, guiVars>>
\* another submitter's disconnect: cleanup_server_jobs cancels every worker
OtherScancel ==
  /\ workers > 0
  /\ workers' = 0
  /\ UNCHANGED <<rfs, issued, otherSawZero, started, subVars, callVars, gsVars,
                 waitVars, dlVars, connVars, logVars, guiVars>>

\* the worker moves a job document from one status directory to the next in
\* one step, rewriting its status field
MoveDoc(fs, j, from, to) ==
  LET gone == Without(fs, {DocNode(from, j)})
      doc == fs[DocNode(from, j)].data
  IN [p \in DOMAIN gone \cup {DocNode(to, j)} |->
        IF p = DocNode(to, j) THEN File([doc EXCEPT !.status = to])
        ELSE gone[p]]
WorkerClaim(j) ==
  /\ workers > 0
  /\ IsFile(rfs, DocNode("pending", j))
  /\ rfs' = MoveDoc(rfs, j, "pending", "running")
  /\ UNCHANGED <<subVars, envVars, callVars, gsVars, waitVars, dlVars, connVars, logVars, guiVars>>
\* the job ends: its results are in place when it shows as completed
WorkerFinish(j, s) ==
  /\ workers > 0
  /\ IsFile(rfs, DocNode("running", j))
  /\ rfs' = IF s = "completed"
              THEN WithFiles(MoveDoc(rfs, j, "running", s),
                             [p \in {Append(Append(ResultsNode, j), <<"b">>)} |-> Blob(1)])
              ELSE MoveDoc(rfs, j, "running", s)
  /\ UNCHANGED <<subVars, envVars, callVars, gsVars, waitVars, dlVars, connVars, logVars, guiVars>>

\* ---------------------------------------------------------- specifications

IdleGs ==
  /\ gpc = "idle" /\ gsJob = <<>> /\ gsIdx = 0 /\ gsRet = None
  /\ gsSeenAbsent = FALSE
IdleCall ==
  /\ op = "idle" /\ arg = <<>> /\ idx = 0 /\ ret = None /\ done = FALSE
  /\ cmdLog = <<>> /\ rfs0 = rfs
  /\ IdleGs
IdleWait ==
  /\ timeout = 0 /\ hasHook = FALSE /\ wpc = "idle" /\ clock = 0
  /\ status = None /\ last_status = None /\ result = None
  /\ hookLog = <<>> /\ pollLog = <<>> /\ sleeps = 0 /\ iterCost = 0
  /\ uiMsg = NoMsg

IdleSub ==
  /\ spc = "idle" /\ job_data = None /\ stderr_content = ""
  /\ caller_parameters = None
  /\ guardLog = <<>>
IdleEnv == workers = 0 /\ issued = {} /\ otherSawZero = FALSE /\ started = 0
IdleLog == logged = {} /\ raised = FALSE
IdleGui == flow = "idle" /\ current_job_id = None /\ closing = "open"
\* after a successful connect()
Connected ==
  /\ gateway_client = "open" /\ compute_client = "open"
  /\ dcpc = "idle" /\ job_ids = 0 /\ orphans = NoOrphans
IdleDl ==
  /\ dpc = "idle" /\ lfs = NoFiles /\ localDir = FALSE /\ sftpOpen = FALSE
  /\ sftpOpens = 0 /\ remote_files = <<>> /\ downloaded_count = 0
  /\ copied = {} /\ firstRun = None /\ faulted = FALSE

\* SpecWait: one call of wait_for_job over an arbitrary status source
NextWait == WaitStep \/ GuiReport
InitWaitOnly == rfs = Skeleton /\ InitWait /\ IdleCall /\ IdleDl /\ IdleSub
  /\ IdleEnv /\ Connected /\ IdleLog /\ IdleGui
  /\ findOrder = "forward"
SpecWait == InitWaitOnly /\ [][NextWait]_vars
\* the thread running wait_for_job keeps running
FairSpecWait == SpecWait /\ WF_vars(WaitStep)

\* SpecStatus: one call of get_job_status on an arbitrary queue content
\* (each status directory may or may not hold a document of each job)
StatusTrees ==
  {WithFiles(Skeleton,
             [p \in {DocNode(e[1], e[2]) : e \in held} |->
                JobDoc(SubSeq(Last(p), 1, Len(Last(p)) - 1), p[Len(p) - 1][1], 0)])
     : held \in SUBSET (StatusSet \X ExistingJobs)}
InitStatus == rfs \in StatusTrees /\ IdleWait /\ IdleCall /\ IdleDl /\ IdleSub
  /\ IdleEnv /\ Connected /\ IdleLog /\ IdleGui
  /\ findOrder = "forward"
NextStatus ==
  \/ \E j \in ExistingJobs \cup {UnknownJob} : StatusCall(j)
  \/ StatusProbe
  \/ StatusAbsent
  \/ StatusReturn
SpecStatus == InitStatus /\ [][NextStatus]_vars

\* SpecCleanup: one call of cleanup_job, with any string as job_id, on a
\* server that holds for each job any of: its result tree, its completed
\* document, its documents in the three other status directories
JobChars == {"a", "b", "/", ".", " "}
IdStrings == UNION {[1..n -> JobChars] : n \in 0..MaxIdLen}
ResultFile(j) == Append(Append(ResultsNode, j), <<"b">>)
Features == ExistingJobs \X {"results", "completed", "others"}
FeatureFiles(e) ==
  IF e[2] = "results" THEN {ResultFile(e[1])}
  ELSE IF e[2] = "completed" THEN {DocNode("completed", e[1])}
  ELSE {DocNode(d, e[1]) : d \in StatusSet \ {"completed"}}
FileData(p) ==
  IF p[Len(BaseNode) + 1] = <<"results">> THEN Blob(1)
  ELSE JobDoc(Front(Last(p)), p[Len(p) - 1][1], 0)
CleanupTrees ==
  {WithFiles(Skeleton,
             [p \in UNION {FeatureFiles(e) : e \in feats} |-> FileData(p)])
     : feats \in SUBSET Features}
InitCleanup == rfs \in CleanupTrees /\ IdleWait /\ IdleCall /\ IdleDl /\ IdleSub
  /\ IdleEnv /\ Connected /\ IdleLog /\ IdleGui
  /\ findOrder = "forward"
NextCleanup ==
  \/ \E j \in IdStrings : CleanupCall(j)
  \/ CleanupExec
  \/ CleanupReturn
SpecCleanup == InitCleanup /\ [][NextCleanup]_vars

\* SpecDownload: one call of download_results for job a, whose result
\* directory is missing or holds any of the candidate files
NestedRoot == <<<<"c">>>> \o Append(ResultsNode, JobA) \o <<<<"b">>>>
CandidateFiles ==
  << <<<<"b">>>>, <<<<"c", "b">>>>, <<<<"c">>, <<"b">>>>, <<<<"c">>, <<"d">>>>,
     <<<<"d">>>>, NestedRoot >>
CandidateSet == 1..Len(CandidateFiles)
DownloadTree(chosen, sub) ==
  LET top == Append(ResultsNode, JobA)
      withA == WithFiles(Skeleton,
                [p \in {top \o CandidateFiles[i] : i \in chosen} \cup {ResultFile(JobB)} |->
                   IF p = ResultFile(JobB) THEN Blob(Len(CandidateFiles) + 1)
                   ELSE Blob(CHOOSE i \in chosen : p = top \o CandidateFiles[i])])
      dirs == {top} \cup (IF sub THEN {Append(top, <<"e">>)} ELSE {})
  IN [p \in DOMAIN withA \cup dirs |-> IF p \in DOMAIN withA THEN withA[p] ELSE Dir]
DownloadTrees ==
  {DownloadTree(chosen, sub) : chosen \in SUBSET CandidateSet, sub \in BOOLEAN}
    \cup {WithFiles(Skeleton, [p \in {ResultFile(JobB)} |-> Blob(Len(CandidateFiles) + 1)])}
InitDownload ==
  /\ rfs \in DownloadTrees /\ IdleWait /\ IdleCall /\ IdleDl /\ IdleSub
  /\ IdleEnv /\ Connected /\ IdleLog /\ IdleGui
  /\ findOrder \in FindOrders
NextDownload ==
  \/ DownloadCall(JobA)
  \/ DlMkdir
  \/ DlLs
  \/ DlFind
  \/ DlOpen
  \/ \E o \in {"copied", "error", "truncated"} : DlGet(o)
  \/ DlClose
SpecDownload == InitDownload /\ [][NextDownload]_vars
\* SpecDownloadTwice: the same call, and then the same call again, on the
\* result trees made of the files cb, c/b and the nested one
RepeatSet == {2, 3, Len(CandidateFiles)}
InitDownloadTwice ==
  /\ rfs \in {DownloadTree(chosen, sub) : chosen \in SUBSET RepeatSet,
                                          sub \in BOOLEAN}
  /\ IdleWait /\ IdleCall /\ IdleDl /\ IdleSub /\ IdleEnv /\ Connected /\ IdleLog /\ IdleGui
  /\ findOrder \in FindOrders
NextDownloadTwice == NextDownload \/ DownloadAgain
SpecDownloadTwice == InitDownloadTwice /\ [][NextDownloadTwice]_vars

\* SpecSession: one connected session alone on the server: submit_job call
\* after call, each with any outcome of its remote commands, then
\* disconnect. The server starts complete, or without jobs/pending, or
\* without the worker's batch script, with any number of workers listed
Functions == {"polar_circle", "single_strip"}
OldCredentials == [username |-> "old", password |-> "old"]
ParameterSets ==
  {<<>>, [date |-> 1], [date |-> 1, credentials |-> OldCredentials]}
SessionTrees ==
  {Skeleton, Without(Skeleton, {StatusNode("pending")}),
   Without(Skeleton, {ScriptNode})}
InitSession ==
  /\ rfs \in SessionTrees
  /\ IdleWait /\ IdleCall /\ IdleDl /\ IdleSub /\ Connected /\ IdleLog /\ IdleGui
  /\ workers \in 0..MaxWorkers /\ issued = {} /\ otherSawZero = FALSE
  /\ started = 0
  /\ findOrder = "forward"
NextSession ==
  \/ \E j \in ExistingJobs, f \in Functions, ps \in ParameterSets :
       SubmitCall(j, f, ps)
  \/ \E o \in WriteOutcomes : SubmitWrite(o)
  \/ \E o \in SqueueOutcomes : SubmitSqueue(o)
  \/ \E o \in SbatchOutcomes : SubmitSbatch(o)
  \/ SubmitReturn
  \/ op = "submit" /\ ClientNext
  \/ DisconnectCall
  \/ DiscQuery
  \/ DiscCancel
  \/ DiscCancelled
  \/ DiscCloseCompute
  \/ DiscCloseGateway
SpecSession == InitSession /\ [][NextSession]_vars

\* SpecOffline: the five job operations, call after call, on a session that
\* is not connected: connect never called, connect failed on the second hop,
\* or disconnect done. The server holds job a completed with its result.
OfflineSessions == {<<"None", "None">>, <<"open", "closed">>, <<"closed", "closed">>}
OfflineTree ==
  WithFiles(Skeleton,
            [p \in {DocNode("completed", JobA), ResultFile(JobA)} |->
               IF p = ResultFile(JobA) THEN Blob(1)
               ELSE [JobData(JobA, QueueFunction, QueueParameters)
                       EXCEPT !.status = "completed"]])
InitOffline ==
  /\ rfs = OfflineTree
  /\ IdleWait /\ IdleCall /\ IdleDl /\ IdleSub /\ IdleEnv /\ IdleLog /\ IdleGui
  /\ \E session \in OfflineSessions :
       gateway_client = session[1] /\ compute_client = session[2]
  /\ dcpc = "idle" /\ job_ids = 0 /\ orphans = NoOrphans
  /\ findOrder = "forward"
NextOffline ==
  \/ \E f \in Functions, ps \in ParameterSets : SubmitCall(JobB, f, ps)
  \/ SubmitWrite("lost")
  \/ StatusCall(JobA)
  \/ StatusRaises
  \/ StatusReturn
  \/ \E t \in 0..MaxQueueTimeout, h \in BOOLEAN : WaitCall(JobA, t, h)
  \/ WaitTest
  \/ WaitTimedOut
  \/ WaitPollCall
  \/ \E c \in 0..MaxPollCost : WaitPollReturn(c)
  \/ WaitCompare
  \/ WaitSleep
  \/ DownloadCall(JobA)
  \/ DlMkdir
  \/ DlRaises
  \/ CleanupCall(JobA)
  \/ CleanupRaises
  \/ \E o \in ConnectOutcomes \ {"connected"} : Connect(o)
  \/ ClientNext
SpecOffline == InitOffline /\ [][NextOffline]_vars

\* SpecFaults: a client that connects, calls get_job_status, wait_for_job and
\* cleanup_job for job a and disconnects while things go wrong: a hop of
\* connect fails, the transport fails under a
\* command, a command reports on stderr, the progress hook raises, and the
\* server holds for job a a document that is empty, is no JSON, has no
\* 'status' key, or names another status than the directory it lies in
NoStatusDoc == [job_id |-> JobA, extra |-> 0]
FaultContents ==
  {JobDoc(JobA, s, 0) : s \in StatusSet} \cup {NoStatusDoc, Blob(1), Blob(0)}
FaultTrees ==
  {WithFiles(Skeleton, [p \in {ResultFile(JobA)} |-> Blob(1)])} \cup
  {WithFiles(Skeleton,
             [p \in {DocNode(d, JobA), ResultFile(JobA)} |->
                IF p = ResultFile(JobA) THEN Blob(1) ELSE c])
     : d \in StatusSet, c \in FaultContents}
FaultTimeouts == {1, PollInterval + 1}
InitFaults ==
  /\ rfs \in FaultTrees
  /\ IdleWait /\ IdleCall /\ IdleDl /\ IdleSub /\ IdleLog /\ IdleGui
  /\ workers = 1 /\ issued = {} /\ otherSawZero = FALSE /\ started = 0
  /\ gateway_client = "None" /\ compute_client = "None"
  /\ dcpc = "idle" /\ job_ids = 0 /\ orphans = NoOrphans
  /\ findOrder = "forward"
NextFaults ==
  \/ StatusCall(JobA)
  \/ StatusProbe
  \/ StatusUnparsable
  \/ StatusRaises
  \/ StatusAbsent
  \/ StatusReturn
  \/ \E t \in FaultTimeouts, h \in BOOLEAN : WaitCall(JobA, t, h)
  \/ WaitTest
  \/ WaitTimedOut
  \/ WaitPollCall
  \/ \E c \in 0..MaxPollCost : WaitPollReturn(c)
  \/ WaitCompare
  \/ \E c \in 0..MaxHookCost : WaitHook(c)
  \/ WaitHookRaises
  \/ WaitTerminal
  \/ WaitKeyError
  \/ WaitSleep
  \/ CleanupCall(JobA)
  \/ CleanupExec
  \/ CleanupWarns
  \/ CleanupRaises
  \/ CleanupReturn
  \/ \E o \in ConnectOutcomes : Connect(o)
  \/ DisconnectCall
  \/ DiscQuery
  \/ DiscRaises
  \/ DiscCancel
  \/ DiscCancelled
  \/ DiscCloseCompute
  \/ DiscCloseGateway
  \/ ClientNext
SpecFaults == InitFaults /\ [][NextFaults]_vars

\* SpecRoundTrip: one submit_job of a function with a path parameter and a
\* password, both any text, followed by get_job_status of the returned id
InitRoundTrip == rfs = Skeleton /\ IdleWait /\ IdleCall /\ IdleDl /\ IdleSub
  /\ IdleEnv /\ Connected /\ IdleLog /\ IdleGui
  /\ findOrder = "forward"
NextRoundTrip ==
  \/ \E f \in Functions, path \in Texts, password \in Texts :
       TextSubmitCall(JobA, f, path, password)
  \/ TextSubmitWrite
  \/ TextStatus
SpecRoundTrip == InitRoundTrip /\ [][NextRoundTrip]_vars

\* SpecFlow: one run of the window's job flow for one job, with the worker
\* taking the job and ending it as completed (its output file in place) or
\* as failed at any time; connect may fail and so may the file transfer
FlowParameters == [date |-> 1]
InitFlow == rfs = Skeleton /\ IdleWait /\ IdleCall /\ IdleDl /\ IdleSub
  /\ workers = 0 /\ issued = {} /\ otherSawZero = FALSE /\ started = 0
  /\ gateway_client = "None" /\ compute_client = "None"
  /\ dcpc = "idle" /\ job_ids = 0 /\ orphans = NoOrphans
  /\ IdleLog /\ IdleGui
  /\ findOrder = "forward"
FlowStep ==
  \/ OnProcess
  \/ \E o \in ConnectOutcomes : FlowConnect(o)
  \/ \E f \in Functions : FlowSubmit(JobA, f, FlowParameters)
  \/ SubmitWrite("written")
  \/ SubmitSqueue("count")
  \/ SubmitSbatch("submitted")
  \/ SubmitReturn
  \/ \E t \in 1..MaxQueueTimeout : FlowWait(t)
  \/ WaitTest
  \/ WaitTimedOut
  \/ WaitPollCall
  \/ StatusProbe
  \/ \E c \in 0..MaxPollCost : WaitPollReturn(c)
  \/ WaitCompare
  \/ \E c \in 0..MaxHookCost : WaitHook(c)
  \/ WaitTerminal
  \/ WaitSleep
  \/ FlowDownload
  \/ DlMkdir
  \/ DlLs
  \/ DlFind
  \/ DlOpen
  \/ \E o \in {"copied", "error", "truncated"} : DlGet(o)
  \/ DlClose
  \/ FlowCleanup
  \/ CleanupExec
  \/ CleanupReturn
  \/ FlowReturn
NextFlow ==
  \/ FlowStep
  \/ WorkerClaim(JobA)
  \/ \E s \in TerminalStatuses : WorkerFinish(JobA, s)
SpecFlow == InitFlow /\ [][NextFlow]_vars

\* SpecClose: the window's job flow with the window closed at any time. The
\* job thread's calls on a session that on_close has closed end the way
\* their except clauses end them; a file is copied over an open session only.
CloseStep ==
  \/ OnClose
  \/ CloseQuery
  \/ CloseCancel
  \/ CloseCancelled
  \/ CloseCompute
  \/ CloseGateway
  \/ WindowDestroy
ClosedSessionStep ==
  \/ ~CanExec /\ SubmitWrite("lost")
  \/ ~CanExec /\ SubmitSqueue("raised")
  \/ ~CanExec /\ SubmitSbatch("raised")
  \/ ~CanExec /\ StatusRaises
  \/ ~CanExec /\ DlRaises
  \/ ~CanExec /\ CleanupRaises
FlowOnSession ==
  \/ OnProcess
  \/ \E o \in ConnectOutcomes : FlowConnect(o)
  \/ \E f \in Functions : FlowSubmit(JobA, f, FlowParameters)
  \/ SubmitWrite("written")
  \/ SubmitSqueue("count")
  \/ SubmitSbatch("submitted")
  \/ SubmitReturn
  \/ \E t \in 1..MaxQueueTimeout : FlowWait(t)
  \/ WaitTest
  \/ WaitTimedOut
  \/ WaitPollCall
  \/ StatusProbe
  \/ \E c \in 0..MaxPollCost : WaitPollReturn(c)
  \/ WaitCompare
  \/ \E c \in 0..MaxHookCost : WaitHook(c)
  \/ WaitTerminal
  \/ WaitSleep
  \/ FlowDownload
  \/ DlMkdir
  \/ DlLs
  \/ DlFind
  \/ DlOpen
  \/ \E o \in {"copied", "error"} : (o = "copied" => CanExec) /\ DlGet(o)
  \/ DlClose
  \/ FlowCleanup
  \/ CleanupExec
  \/ CleanupReturn
  \/ FlowReturn
NextClose ==
  \/ FlowOnSession
  \/ ClosedSessionStep
  \/ CloseStep
  \/ WorkerClaim(JobA)
  \/ \E s \in TerminalStatuses : WorkerFinish(JobA, s)
SpecClose == InitFlow /\ [][NextClose]_vars

\* SpecWindow: one window used for job after job: each Process starts a
\* job thread that calls connect() and runs the job; the window is closed
\* with no job thread running. What became of a replaced client object is
\* left to the runtime.
ChannelKinds == {"gateway", "compute"}
\* the window is closed while no job thread of it runs
CloseIdleWindow == flow = "idle" /\ OnClose
NextWindow ==
  \/ FlowOnSession
  \/ WorkerClaim(JobA)
  \/ \E s \in TerminalStatuses : WorkerFinish(JobA, s)
  \/ EnableControls
  \/ \E o \in ConnectOutcomes : FlowReconnect(o)
  \/ \E k \in ChannelKinds : Collect(k)
  \/ CloseIdleWindow
  \/ CloseQuery
  \/ CloseCancel
  \/ CloseCancelled
  \/ CloseCompute
  \/ CloseGateway
  \/ WindowDestroy
SpecWindow == InitFlow /\ [][NextWindow]_vars

\* SpecObserve: one client calling get_job_status and wait_for_job (with a
\* hook), call after call, for job a, whose document is in the queue from
\* the start and is only moved forward by the worker, and get_job_status
\* for job b, which the queue does not hold. The timeouts are negative, zero
\* and long enough for several polls.
ObserveTimeouts == {-1, 0, MaxTimeout}
ObserveTree(d) ==
  WithFiles(Skeleton,
            [p \in {DocNode(d, JobA)} |->
               [JobData(JobA, QueueFunction, QueueParameters)
                  EXCEPT !.status = d]])
InitObserve ==
  /\ \E d \in StatusSet : rfs = ObserveTree(d)
  /\ IdleWait /\ IdleCall /\ IdleDl /\ IdleSub
  /\ workers = 1 /\ issued = {} /\ otherSawZero = FALSE /\ started = 0
  /\ Connected /\ IdleLog /\ IdleGui
  /\ findOrder = "forward"
NextObserve ==
  \/ \E j \in ExistingJobs : StatusCall(j)
  \/ StatusProbe
  \/ StatusAbsent
  \/ StatusReturn
  \/ \E t \in ObserveTimeouts : WaitCall(JobA, t, TRUE)
  \/ WaitTest
  \/ WaitTimedOut
  \/ WaitPollCall
  \/ \E c \in 0..MaxPollCost : WaitPollReturn(c)
  \/ WaitCompare
  \/ \E c \in 0..MaxHookCost : WaitHook(c)
  \/ WaitTerminal
  \/ WaitSleep
  \/ WorkerClaim(JobA)
  \/ \E s \in TerminalStatuses : WorkerFinish(JobA, s)
  \/ ClientNext
SpecObserve == InitObserve /\ [][NextObserve]_vars

\* SpecJobId: two submissions, by one submitter or two, of functions of any
\* name (underscores and digits included) at any second with any uuid
NameChars == {"f", "_", "0"}
FunctionNames == UNION {[1..n -> NameChars] : n \in 0..MaxNameLen}
Clock(sec) ==
  [year |-> 2026, month |-> 11, day |-> 5, hour |-> 23, minute |-> 59,
   second |-> sec]
InitJobId == rfs = Skeleton /\ IdleWait /\ IdleCall /\ IdleDl /\ IdleSub
  /\ workers = 0 /\ issued = <<>> /\ otherSawZero = FALSE /\ started = 0
  /\ Connected /\ IdleLog /\ IdleGui
  /\ findOrder = "forward"
NextJobId ==
  \E k \in 1..2, function \in FunctionNames, sec \in 0..MaxSecond, n \in 0..MaxSuffix :
    NewJobId(k, function, Clock(sec), n)
SpecJobId == InitJobId /\ [][NextJobId]_vars

\* SpecQueue: one client doing call after call (submit_job, get_job_status,
\* wait_for_job, download_results, cleanup_job) on a queue that other
\* submitters write to and clean up and that the worker drains, every remote
\* command and every worker move being one step
InitQueue == rfs = Skeleton /\ IdleWait /\ IdleCall /\ IdleDl /\ IdleSub
  /\ IdleEnv /\ Connected /\ IdleLog /\ IdleGui
  /\ findOrder = "forward"
ClientStep ==
  \/ \E j \in ExistingJobs : SubmitCall(j, QueueFunction, QueueParameters)
  \/ SubmitWrite("written")
  \/ SubmitSqueue("count")
  \/ SubmitSbatch("submitted")
  \/ SubmitReturn
  \/ \E j \in ExistingJobs : StatusCall(j)
  \/ StatusProbe
  \/ StatusAbsent
  \/ StatusReturn
  \/ \E j \in ExistingJobs, h \in BOOLEAN : WaitCall(j, MaxQueueTimeout, h)
  \/ WaitTest
  \/ WaitTimedOut
  \/ WaitPollCall
  \/ \E c \in 0..MaxPollCost : WaitPollReturn(c)
  \/ WaitCompare
  \/ \E c \in 0..MaxHookCost : WaitHook(c)
  \/ WaitTerminal
  \/ WaitSleep
  \/ GuiReport
  \/ \E j \in ExistingJobs : DownloadCall(j)
  \/ DlMkdir
  \/ DlLs
  \/ DlFind
  \/ DlOpen
  \/ \E o \in {"copied", "error", "truncated"} : DlGet(o)
  \/ DlClose
  \/ \E j \in ExistingJobs : CleanupCall(j)
  \/ CleanupExec
  \/ CleanupReturn
  \/ ClientNext
OthersStep ==
  \/ \E j \in ExistingJobs : OtherSubmit(j)
  \/ OtherSqueue
  \/ OtherSbatch
  \/ \E j \in ExistingJobs, i \in 1..2 : OtherCleanup(j, i)
  \/ OtherScancel
WorkerStep ==
  \/ \E j \in ExistingJobs : WorkerClaim(j)
  \/ \E j \in ExistingJobs, s \in TerminalStatuses : WorkerFinish(j, s)
NextQueue == ClientStep \/ OthersStep \/ WorkerStep
SpecQueue == InitQueue /\ [][NextQueue]_vars

\* ================================================== claims on SpecQueue
Exclusive == \A j \in ExistingJobs : Cardinality(HoldingDirs(rfs, j)) <= 1
\* a probe of get_job_status finds content and the call returns it
ProbeHit == gpc = "probing" /\ gpc' = "returned" /\ gsIdx \in 1..Len(Statuses)
\* the call returns None after its four probes
ProbeMiss == gpc = "probing" /\ gpc' = "returned" /\ gsIdx = Len(Statuses) + 1

HitReturnsHolder ==
  ProbeHit =>
    /\ HoldingDirs(rfs, gsJob) = {gsIdx}
    /\ gsRet' = rfs[DocNode(ProbeDir(gsIdx), gsJob)].data
    /\ gsRet'.job_id = gsJob /\ gsRet'.status = Statuses[gsIdx]
MissSawAbsent == ProbeMiss => (gsRet' = None /\ gsSeenAbsent)

NotLost ==
  \A j \in ExistingJobs :
    (Holding(rfs, j) # {} /\ Holding(rfs', j) = {}) =>
      Holding(rfs, j) = {"completed"}
NotDuplicated == \A j \in ExistingJobs : Cardinality(Holding(rfs, j)) <= 1
JobOperations == {"submit", "status", "wait", "download", "cleanup"}
\* none of the commands the operation has issued holds the word scancel
NoCancelIssued ==
  op \in JobOperations =>
    \A i \in 1..Len(cmdLog) : \A k \in 1..Len(cmdLog[i]) : cmdLog[i][k] # "scancel"
\* a step in which a listed worker goes is no step of the client
WorkersGoElsewhere ==
  workers' < workers => UNCHANGED <<callVars, gsVars, waitVars, dlVars, subVars>>
\* C20: in any sequence of submit_job, get_job_status, wait_for_job (timing
\* out or not), download_results and cleanup_job, interleaved with the other
\* submitters and the worker, no command issued is a scheduler cancel and no
\* step of these operations takes a worker off the scheduler's list.
C20_NoCancelOutsideTeardown == []NoCancelIssued /\ [][WorkersGoElsewhere]_vars
C20_Witness ==
  /\ op = "wait" /\ wpc = "timedout" /\ result = None
  /\ Holding(rfs, arg) = {"running"}
  /\ workers = 1
  /\ cmdLog # <<>>

\* a step of the client: of the operation in hand, or into or out of one
ClientAt ==
  <<op, done, idx, cmdLog, gpc, gsIdx, wpc, clock, sleeps, dpc, sftpOpen,
    downloaded_count, spc, guardLog>>
ClientMoved == ClientAt' # ClientAt
Reading == {"status", "wait", "download"}
\* the remote tree, status directories and results included, is the same
\* after every step of get_job_status, wait_for_job and download_results
ReadsOnly == (ClientMoved /\ (op \in Reading \/ op' \in Reading)) => rfs' = rfs
\* a document the client's step finds is the same after it, or gone without
\* a document of that job appearing in another status directory
NeitherRewritesNorMoves ==
  ClientMoved =>
    \A d \in StatusSet, j \in ExistingJobs :
      IsFile(rfs, DocNode(d, j)) =>
        \/ IsFile(rfs', DocNode(d, j)) /\ rfs'[DocNode(d, j)] = rfs[DocNode(d, j)]
        \/ /\ ~Exists(rfs', DocNode(d, j))
           /\ \A e \in StatusSet \ {d} :
                IsFile(rfs', DocNode(e, j)) => IsFile(rfs, DocNode(e, j))
OwnResults(j) == Append(ResultsNode, j)
OwnNodes(fs, j) == Subtree(fs, OwnResults(j)) \cup {DocNode("completed", j)}
Deleted == DOMAIN rfs0 \ DOMAIN rfs
Kept(p) == p \in DOMAIN rfs /\ rfs[p] = rfs0[p]

\* C7: cleanup_job of an existing job removes exactly results/<job> with what
\* is below it and jobs/completed/<job>.json, by its two commands, and
\* answers True; the other job's results and documents and every pending,
\* running and failed document, the job's own included, stay as they were.
C7_ScopeContainment ==
  (op = "cleanup" /\ arg \in ExistingJobs) =>
    /\ Deleted \subseteq OwnNodes(rfs0, arg)
    /\ \A p \in DOMAIN rfs : Kept(p)
    /\ done =>
         /\ ret = TRUE
         /\ cmdLog = CleanupCommands(arg)
         /\ rfs = Without(rfs0, OwnNodes(rfs0, arg))
C7_Witness ==
  /\ op = "cleanup" /\ done /\ arg = JobA
  /\ \A e \in Features : FeatureFiles(e) \subseteq DOMAIN rfs0
  /\ Deleted = {OwnResults(JobA), ResultFile(JobA), DocNode("completed", JobA)}
  /\ Kept(ResultFile(JobB)) /\ Kept(DocNode("completed", JobB))
  /\ \A d \in StatusSet \ {"completed"} : Kept(DocNode(d, JobA))

\* C8 as stated: for every job_id string, the empty one and those with '/',
\* '..' or spaces included, every path cleanup_job deletes lies in the
\* subtree results/<job_id> or is jobs/completed/<job_id>.json of that very
\* job_id; the results directory itself, other jobs' results and documents
\* and the code under the base path are never deleted.
C8_Original ==
  op = "cleanup" =>
    /\ Deleted \subseteq OwnNodes(rfs0, arg)
    /\ \A p \in DOMAIN rfs : Kept(p)

\* =============================================== claims on SpecDownload
Found == FindOut(rfs0, FindCommand(arg))
NodeOf(f) == Resolve(rfs0, f).path
\* a path with its leading prefix pat taken off
RemovePrefix(s, pat) ==
  IF IsPrefix(pat, s) THEN SubSeq(s, Len(pat) + 1, Len(s)) ELSE s
RelativeTo(f, j) == LocalFile(RemovePrefix(f, RemotePath(j) \o <<"/">>))
AtRelativePath(f) ==
  /\ RelativeTo(f, arg) \in DOMAIN lfs
  /\ lfs[RelativeTo(f, arg)] = rfs0[NodeOf(f)].data

\* C9 as stated: download_results answers True iff at least one file was
\* copied, a failing transfer being skipped; every copied file is then found
\* under local_dir at its path relative to results/<job_id> with its remote
\* content, distinct remote files at distinct local paths.
C9_Original ==
  (op = "download" /\ done) =>
    /\ ret = (copied # {})
    /\ copied \subseteq Found
    /\ \A f \in copied : AtRelativePath(f)
    /\ \A f, g \in copied : f # g => RelativeTo(f, arg) # RelativeTo(g, arg)

\* C10: with results/<job_id> missing, download_results issues only the ls
\* command and answers False: no find, no SFTP channel opened, no local file
\* written; with results/<job_id> present but holding no file it answers
\* False as well, after the find and without opening SFTP.
C10_MissingResultDir ==
  /\ (op = "download" /\ ~Exists(rfs0, OwnResults(arg))) =>
       /\ sftpOpens = 0 /\ ~sftpOpen /\ lfs = NoFiles /\ copied = {}
       /\ \/ dpc \in {"mkdir", "ls"} /\ cmdLog = <<>> /\ ~done
          \/ dpc = "done" /\ cmdLog = <<LsCommand(arg)>> /\ done /\ ret = FALSE
  /\ (op = "download" /\ done /\ IsDir(rfs0, OwnResults(arg)) /\ Found = {}) =>
       /\ ret = FALSE /\ sftpOpens = 0 /\ lfs = NoFiles
       /\ cmdLog = <<LsCommand(arg), FindCommand(arg)>>
C10_Witness ==
  /\ op = "download" /\ done /\ arg = JobA
  /\ ~Exists(rfs0, OwnResults(JobA)) /\ Exists(rfs0, ResultFile(JobB))
  /\ ret = FALSE /\ cmdLog = <<LsCommand(JobA)>>

\* ========================================== claims on SpecDownloadTwice
\* C11: download_results run a second time for the same job_id and local_dir
\* on an unchanged remote tree, no transfer failing in either run, returns
\* what the first run returned and leaves the local tree as the first run
\* left it.
C11_Idempotent ==
  (op = "download" /\ done /\ firstRun # None /\ ~faulted /\ rfs = rfs0) =>
    /\ ret = firstRun.ret
    /\ lfs = firstRun.lfs
C11_Witness ==
  /\ op = "download" /\ done /\ firstRun # None /\ ~faulted
  /\ ret = TRUE /\ firstRun.ret = TRUE
  /\ \A i \in RepeatSet : Exists(rfs0, OwnResults(JobA) \o CandidateFiles[i])
  /\ lfs = firstRun.lfs
  /\ Cardinality(DOMAIN lfs) = Cardinality(RepeatSet) - 1

\* ================================================ claims on SpecSession
\* submit_job has returned, with a job id or with None
Submitted == op = "submit" /\ done /\ spc = "done"
Succeeded == Submitted /\ ret # None
ReturnedNone == Submitted /\ ret = None
\* a step of submit_job changes the remote tree, if at all, by adding or
\* rewriting jobs/pending/<job_id>.json alone
OnlyPendingDoc ==
  op' = "submit" =>
    \/ rfs' = rfs
    \/ /\ DOMAIN rfs' = DOMAIN rfs \cup {DocNode("pending", job_data'.job_id)}
       /\ \A p \in DOMAIN rfs \ {DocNode("pending", job_data'.job_id)} :
            rfs'[p] = rfs[p]
\* the document a successful submit_job leaves
DocumentAsSubmitted ==
  Succeeded =>
    /\ ret = Str(job_data.job_id)
    /\ Holding(rfs, ret.str) = {"pending"}
    /\ LET doc == rfs[DocNode("pending", ret.str)].data
       IN /\ Str(doc.job_id) = ret
          /\ doc.status = "pending"
          /\ doc.extra.function = arg.function
          /\ DOMAIN doc.extra.parameters =
               DOMAIN arg.parameters \cup {"credentials"}
          /\ doc.extra.parameters.credentials = Credentials
          /\ \A k \in DOMAIN arg.parameters \ {"credentials"} :
               doc.extra.parameters[k] = arg.parameters[k]
\* C12: a successful submit_job has written one document and no other node,
\* jobs/pending/<job_id>.json, with status 'pending', the given function,
\* the caller's parameters plus the credentials sub-object and the job_id it
\* returns; running, completed and failed hold no document of that id.
C12_PendingDocument == []DocumentAsSubmitted /\ [][OnlyPendingDoc]_vars
C12_Witness ==
  /\ Succeeded
  /\ arg.function = "single_strip"
  /\ arg.parameters = [date |-> 1]
  /\ rfs[DocNode("pending", ret.str)].data.extra.parameters
       = [date |-> 1, credentials |-> Credentials]
  /\ Cardinality(DOMAIN rfs) = Cardinality(DOMAIN rfs0) + 1

\* the one remote write of the call
WriteCommand == <<"echo", " ", ">", " ">> \o PendingPath(job_data.job_id)
\* a step of submit_job after stderr was found non-empty touches no worker
NoWorkerAfterStderr ==
  (op' = "submit" /\ stderr_content' # "") => workers' = workers
SingleShot ==
  (Submitted /\ stderr_content # "") =>
    /\ ret = None
    /\ cmdLog = <<WriteCommand>>
    /\ guardLog = <<>>
\* C13: when the write command leaves text on stderr, submit_job returns None
\* having issued that one write and no other command: no second write, no
\* scheduler query, no worker submission.
C13_SingleShotWrite == []SingleShot /\ [][NoWorkerAfterStderr]_vars
C13_Witness ==
  /\ Submitted /\ stderr_content # "" /\ ret = None
  /\ ~Exists(rfs, StatusNode("pending"))
  /\ workers = 0 /\ Len(cmdLog) = 1

\* C14 as stated: whenever submit_job returns None, none of the four status
\* directories holds a document named after the job id of that call.
C14_Original == ReturnedNone => Holding(rfs, job_data.job_id) = {}

\* the guard is entered with the call's document written
GuardAfterWrite ==
  (guardLog = <<>> /\ guardLog' # <<>>) =>
    /\ cmdLog = <<WriteCommand>>
    /\ rfs[DocNode("pending", job_data.job_id)] = File(job_data)
GuardBeforeReturn ==
  Succeeded =>
    /\ guardLog # <<>>
    /\ Len(cmdLog) >= 2
    /\ cmdLog[1] = WriteCommand
    /\ cmdLog[2] = SqueueCount
\* C15: a submit_job that returns a job id has entered
\* _ensure_processor_running, whose scheduler query is the command right
\* after the write, with the document written and before returning.
C15_GuardFollowsWrite == []GuardBeforeReturn /\ [][GuardAfterWrite]_vars
C15_Witness ==
  /\ Succeeded /\ guardLog = <<"some">>
  /\ cmdLog = <<WriteCommand, SqueueCount>>
  /\ Holding(rfs, job_data.job_id) = {"pending"}

\* what the guard can have seen and done without starting or finding a worker
GuardFailures == {<<"zero", "other">>, <<"zero", "raised">>, <<"garbled">>, <<"raised">>}
GuardLogs == GuardFailures \cup {<<"zero", "submitted">>, <<"some">>}
GuardNotFatal ==
  (Submitted /\ guardLog # <<>>) =>
    /\ guardLog \in GuardLogs
    /\ ret = Str(job_data.job_id)
    /\ rfs[DocNode("pending", job_data.job_id)] = File(job_data)
    /\ Holding(rfs, job_data.job_id) = {"pending"}
\* C16: once the write has passed, submit_job returns the job id and the
\* document is in pending as written, whether sbatch answered 'Submitted
\* batch job' or something else or raised, and whether the scheduler query
\* gave a count, an unparsable text or raised.
C16_GuardFailureNotFatal == GuardNotFatal
C16_Witness ==
  /\ Submitted /\ guardLog = <<"zero", "other">>
  /\ ~Exists(rfs, ScriptNode) /\ workers = 0
  /\ ret = Str(job_data.job_id)
  /\ rfs[DocNode("pending", job_data.job_id)] = File(job_data)
\* a worker is submitted only from a guard whose query reported zero
SbatchOnlyOnZero ==
  (op = "submit" /\ \E i \in 1..Len(cmdLog) : cmdLog[i] = SbatchCommand) =>
    /\ guardLog # <<>> /\ guardLog[1] = "zero"
    /\ Len(cmdLog) = 3
\* a guard whose query reported a worker leaves the workers as they are
ListedMeansNoSbatch ==
  (op = "submit" /\ guardLog # <<>> /\ guardLog[1] = "some") =>
    /\ guardLog = <<"some">>
    /\ cmdLog = <<WriteCommand, SqueueCount>>
\* the workers grow by the guard's sbatch alone, from none to one
GrowsFromZero ==
  workers' > workers =>
    /\ workers = 0 /\ workers' = 1
    /\ guardLog = <<"zero">> /\ guardLog' = <<"zero", "submitted">>
\* the session's guards together have started at most one worker, and it is
\* listed as long as the session has not cancelled it
AtMostOneStarted == started <= 1 /\ (op = "submit" /\ started = 1 => workers = 1)
\* C17: _ensure_processor_running submits a worker only when its scheduler
\* query reported zero workers, and a later call of the same session, made
\* while that worker is listed, submits none.
C17_GuardIdempotent ==
  /\ [](SbatchOnlyOnZero /\ ListedMeansNoSbatch /\ AtMostOneStarted)
  /\ [][GrowsFromZero]_vars
C17_Witness ==
  /\ Cardinality(issued) = 2 /\ Submitted /\ ret # None
  /\ started = 1 /\ workers = 1
  /\ guardLog = <<"some">>
  /\ cmdLog = <<WriteCommand, SqueueCount>>

\* the commands of a finished cancellation step: the query, then one cancel
\* for each id it listed
CancellationRan ==
  /\ cmdLog # <<>> /\ cmdLog[1] = SqueueIds
  /\ Len(cmdLog) = 1 + job_ids
  /\ \A i \in 2..Len(cmdLog) : cmdLog[i] = ScancelCommand
  /\ workers = 0
ClosedAfterCancel ==
  /\ (compute_client = "closed" \/ gateway_client = "closed") =>
       op = "disconnect" /\ dcpc \in {"close_gateway", "done"} /\ CancellationRan
  /\ gateway_client = "closed" => compute_client = "closed"
\* the query lists every worker of the account
ListsEveryWorker ==
  (op = "disconnect" /\ dcpc = "query" /\ dcpc' = "cancel") => job_ids' = workers
\* C19: disconnect on a connected session queries the scheduler, cancels
\* every worker id the query listed, then closes the compute channel and
\* after it the gateway channel; neither channel is closed before the
\* cancellation step is over.
C19_CancelThenClose == []ClosedAfterCancel /\ [][ListsEveryWorker]_vars
C19_Witness ==
  /\ op = "disconnect" /\ dcpc = "done"
  /\ compute_client = "closed" /\ gateway_client = "closed"
  /\ job_ids = 2 /\ workers = 0
  /\ cmdLog = <<SqueueIds, ScancelCommand, ScancelCommand>>

\* ================================================ claims on SpecOffline
\* C21 as stated: on a session that is not connected each of the five
\* operations returns its failure marker at once: wait_for_job without a
\* poll repeated or a sleep, download_results without the local directory
\* made, none with a remote command issued or the remote tree changed.
C21_Original ==
  ~CanExec =>
    /\ op = "wait" => sleeps = 0 /\ Len(pollLog) <= 1
    /\ op = "download" => ~localDir
    /\ cmdLog = <<>> /\ rfs = rfs0
    /\ (op \in {"download", "cleanup"} /\ done) => ret = FALSE
    /\ (op \in {"submit", "status"} /\ done) => ret = None
    /\ (op = "wait" /\ WaitFinished) => result = None

\* ================================================= claims on SpecFaults
\* C22 as stated: no operation lets an exception out to its caller, whatever
\* fails: the transport, a remote command, the parsing of a document (one
\* without 'status' included) or the caller's progress hook.
C22_Original == ~raised

\* C27: a deletion command of cleanup_job that reports on stderr is logged
\* as a warning and nothing more: cleanup_job goes on to the remaining
\* command and returns True with both commands issued; it returns False
\* only when an exception was caught and logged as an error, and no
\* exception leaves it.
WarningNotFatal ==
  (op = "cleanup" /\ done) =>
    /\ ret = TRUE => cmdLog = CleanupCommands(arg)
    /\ ret = FALSE => <<"error", "cleanup_job">> \in logged
    /\ ret = TRUE <=> <<"error", "cleanup_job">> \notin logged
    /\ ~raised
WarningGoesOn ==
  (op = "cleanup" /\ <<"warning", "cleanup_job">> \in logged' \ logged) =>
    /\ ~done' /\ idx' = idx + 1 /\ rfs' = rfs
    /\ cmdLog' = Append(cmdLog, CleanupCommands(arg)[idx])
C27_CleanupNotFatal == []WarningNotFatal /\ [][WarningGoesOn]_vars
C27_Witness ==
  /\ op = "cleanup" /\ done /\ ret = TRUE
  /\ logged = {<<"warning", "cleanup_job">>}
  /\ cmdLog = CleanupCommands(JobA)
  /\ rfs = rfs0 /\ ResultFile(JobA) \in DOMAIN rfs

\* C28: a status read that fails (the transport raises, or the content is
\* no JSON document) makes get_job_status return None, as for a job in no
\* directory, and wait_for_job takes that None as absent: the hook is not
\* called and the loop goes to its sleep and polls again.
ReadErrorIsNone ==
  (gpc = "returned" /\ op = "status" /\ <<"error", "get_job_status">> \in logged)
    => gsRet = None
UnparsableIsNone ==
  (gpc = "returned" /\ CanExec /\ gsIdx \in 1..Len(Statuses)
     /\ IsFile(rfs, DocNode(ProbeDir(gsIdx), gsJob))
     /\ ~IsJson(rfs[DocNode(ProbeDir(gsIdx), gsJob)].data)
     /\ HasText(rfs[DocNode(ProbeDir(gsIdx), gsJob)].data))
    => gsRet = None
NoneIsAbsent ==
  (op = "wait" /\ wpc = "compare" /\ status = None) =>
    /\ wpc' = "sleep" /\ hookLog' = hookLog
    /\ result' = result /\ last_status' = last_status /\ raised' = raised
C28_ReadErrorAsAbsent ==
  []ReadErrorIsNone /\ []UnparsableIsNone /\ [][NoneIsAbsent]_vars
C28_Witness ==
  /\ op = "wait" /\ wpc = "poll" /\ sleeps = 1
  /\ IsFile(rfs, DocNode("completed", JobA))
  /\ rfs[DocNode("completed", JobA)].data = Blob(1)
  /\ logged = {<<"error", "get_job_status">>}
  /\ pollLog = <<None>> /\ hookLog = <<>> /\ hasHook

\* C29 as stated: a document found in completed/ or failed/ makes
\* wait_for_job return it, whatever its own status field says; so a wait
\* whose reads all worked runs into its deadline only when neither
\* directory holds a document of the job.
C29_Original ==
  (op = "wait" /\ wpc = "timedout" /\ logged = {}) =>
    \A d \in TerminalStatuses :
      IsFile(rfs, DocNode(d, arg)) => ~HasText(rfs[DocNode(d, arg)].data)

\* =================================================== claims on SpecFlow
\* the worker's output file below output_base / job_id
OutputFile == <<<<"b">>>>
NoDownload == ~localDir /\ lfs = NoFiles
\* download_results runs only on a job whose completed document the wait
\* returned, cleanup_job only with the output copied
CallsInOrder ==
  /\ op = "download" =>
       /\ flow = "download"
       /\ IsFile(rfs, DocNode("completed", arg))
       /\ rfs[DocNode("completed", arg)].data.status = "completed"
  /\ op = "cleanup" =>
       /\ flow = "cleanup"
       /\ OutputFile \in DOMAIN lfs /\ lfs[OutputFile] = Blob(1)
\* a job that failed or ran into the deadline: nothing downloaded, no call
\* made any more, the failed document where the worker put it
LeftInPlace ==
  /\ flow \in {"job_failed", "timed_out"} => op = "idle" /\ NoDownload
  /\ flow = "job_failed" =>
       /\ Holding(rfs, current_job_id.str) = {"failed"}
       /\ rfs[DocNode("failed", current_job_id.str)].data.status = "failed"
NoCallAfterFailure ==
  flow \in {"job_failed", "timed_out"} =>
    /\ op' = "idle" /\ flow' = flow
    /\ flow = "job_failed" => rfs' = rfs
\* a completed run: the output is in the local job directory, the job's
\* results and its completed document are gone from the server and no
\* status directory holds a document of the job
CompletedRun ==
  flow = "done" =>
    /\ OutputFile \in DOMAIN lfs /\ lfs[OutputFile] = Blob(1)
    /\ Subtree(rfs, Append(ResultsNode, current_job_id.str)) = {}
    /\ Holding(rfs, current_job_id.str) = {}
\* C26: in the window's flow download_results is called only after
\* wait_for_job returned a completed document and cleanup_job only after
\* download_results returned True; for a failed or timed-out job neither is
\* called and the failed job's document stays; after a completed run the
\* output is local, results/<job_id> and completed/<job_id>.json are gone and
\* pending, running and failed hold no document of the job.
C26_FlowOrder ==
  /\ []CallsInOrder /\ []LeftInPlace /\ []CompletedRun
  /\ [][NoCallAfterFailure]_vars
C26_Witness ==
  /\ flow = "done" /\ op = "idle"
  /\ OutputFile \in DOMAIN lfs
  /\ Holding(rfs, JobA) = {}
  /\ current_job_id = Str(JobA)

\* the GUI thread is inside disconnect: after on_close called it, before it
\* returned
InDisconnect ==
  closing \in {"query", "cancel", "close_compute", "close_gateway"}
\* the job thread is inside submit_job, wait_for_job, download_results or
\* cleanup_job: called, not yet returned
InJobOperation ==
  \/ op \in {"submit", "download", "cleanup"} /\ ~done
  \/ op = "wait" /\ ~WaitFinished
\* C30: at no time are two threads inside operations of the same
\* ServerCommunicator: the GUI thread's on_close -> disconnect does not run
\* while the job thread of the window is inside submit_job, wait_for_job,
\* download_results or cleanup_job
C30_Original == ~(InDisconnect /\ InJobOperation)

\* ============================================ the SFTP sub-channel
\* open_sftp is called on the connected compute client, after ls found the
\* result directory and find listed at least one file, and once in a call
OpensLazily ==
  (sftpOpens' # sftpOpens) =>
    /\ op = "download" /\ ~done /\ CanExec
    /\ cmdLog = <<LsCommand(arg), FindCommand(arg)>>
    /\ Exists(rfs, Append(ResultsNode, arg))
    /\ remote_files # <<>>
    /\ \A i \in 1..Len(remote_files) : Strip(remote_files[i]) # <<>>
    /\ ~sftpOpen /\ sftpOpen'
    /\ sftpOpens = 0 /\ sftpOpens' = 1
\* the sub-channel is open inside the copy loop only, and closed when
\* download_results has returned
Scoped ==
  /\ sftpOpens <= 1
  /\ sftpOpen => (op = "download" /\ ~done /\ dpc = "loop")
  /\ (op = "download" /\ done) => ~sftpOpen
\* C32: download_results opens the SFTP sub-channel on the existing compute
\* connection only after the result directory was found and at least one
\* file was listed, opens at most one in a call, and has closed it when it
\* returns, on every path, failed copies included
C32_LazyScopedSftp == []Scoped /\ [][OpensLazily]_vars
C32_Witness ==
  /\ op = "download" /\ done /\ ret = FALSE
  /\ sftpOpens = 1 /\ ~sftpOpen
  /\ faulted /\ copied = {}

\* ================================== the caller's parameters (SpecSession)
\* submit_job(function, ps) has got past the credential lookup: the dict
\* the caller passed holds the credentials under 'credentials', its other
\* keys as they were, and it is the dict job_data refers to
CredentialsAdded ==
  \A j \in ExistingJobs, f \in Functions, ps \in ParameterSets :
    SubmitCall(j, f, ps) =>
      /\ DOMAIN caller_parameters' = DOMAIN ps \cup {"credentials"}
      /\ caller_parameters'.credentials = Credentials
      /\ \A k \in DOMAIN ps \ {"credentials"} : caller_parameters'[k] = ps[k]
      /\ job_data'.extra.parameters = caller_parameters'
\* nothing later in the call touches it
LeftAlone ==
  (op = "submit" /\ op' = "submit") => caller_parameters' = caller_parameters
\* during the call and after its return, successful or not
HoldsCredentials ==
  op = "submit" =>
    /\ DOMAIN caller_parameters = DOMAIN arg.parameters \cup {"credentials"}
    /\ caller_parameters.credentials = Credentials
    /\ \A k \in DOMAIN arg.parameters \ {"credentials"} :
         caller_parameters[k] = arg.parameters[k]
\* C37: submit_job puts the credentials into the caller's own parameters
\* object, in place of any 'credentials' key already there: after a call
\* that got past the credential lookup, successful or not, the caller's
\* parameters hold username and password and are otherwise unchanged
C37_CredentialsInPlace ==
  []HoldsCredentials /\ [][CredentialsAdded /\ LeftAlone]_vars
C37_Witness ==
  /\ op = "submit" /\ done /\ ret = None
  /\ arg.parameters = [date |-> 1, credentials |-> OldCredentials]
  /\ caller_parameters = [date |-> 1, credentials |-> Credentials]

\* ============================================ a connect that fails late
\* connect() fails after the gateway hop: the tunnel cannot be opened, or
\* the compute host refuses the login
LateFailures == {"channel_failed", "compute_failed"}
\* the session such a connect leaves: gateway connected, compute client
\* missing or not connected
HalfConnected == gateway_client = "open" /\ compute_client # "open"
\* a connect() that ended half connected returned False
FailsHalfConnected ==
  (op = "connect" /\ done /\ HalfConnected) => ret = FALSE
\* ... and a late failure ends half connected
LateFailureLeavesGateway ==
  \A o \in LateFailures :
    Connect(o) => (gateway_client' = "open" /\ compute_client' # "open"
                     /\ ret' = FALSE)
\* an open gateway channel is closed by disconnect's own close, by nothing
\* else
ClosedByDisconnectOnly ==
  (gateway_client = "open" /\ gateway_client' # "open") =>
    (op = "disconnect" /\ dcpc = "close_gateway" /\ dcpc' = "done"
       /\ gateway_client' = "closed")
\* disconnect of a half connected session, before its own close of the
\* compute client: cleanup_server_jobs issues no command, nothing leaves
\* disconnect as an exception, and disconnect goes on to its closes
QuietCancellation ==
  (op = "disconnect" /\ HalfConnected
     /\ dcpc \in {"query", "cancel", "close_compute"}) =>
    /\ cmdLog = <<>> /\ cmdLog' = <<>>
    /\ raised' = raised
    /\ workers' = workers
    /\ dcpc = "query" => dcpc' = "close_compute"
\* C36: a connect that fails after the gateway hop succeeded returns False
\* and leaves the gateway channel open with its handle set; the channel is
\* closed only by a later disconnect, whose cancellation step then issues
\* no cancel command and does not raise
C36_LateFailureKeepsGateway ==
  /\ []FailsHalfConnected
  /\ [][LateFailureLeavesGateway /\ ClosedByDisconnectOnly
          /\ QuietCancellation]_vars
C36_Witness ==
  /\ op = "disconnect" /\ dcpc = "close_gateway"
  /\ gateway_client = "open" /\ compute_client = "closed"
  /\ cmdLog = <<>> /\ workers > 0
  /\ <<"error", "cleanup_server_jobs">> \in logged

\* ================================================= claims on SpecWindow
\* the channels of a kind that are open: the one the communicator's
\* attribute refers to, and those of replaced client objects
OpenChannels(k) ==
  LET held == IF k = "gateway" THEN gateway_client ELSE compute_client
  IN IF held = "open" THEN orphans[k] + 1 ELSE orphans[k]
AtMostOneEach == \A k \in ChannelKinds : OpenChannels(k) <= 1
\* disconnect has returned: no channel is open
DisconnectClosesAll ==
  closing \in {"disconnected", "destroyed"} =>
    \A k \in ChannelKinds : OpenChannels(k) = 0
\* C33: over any sequence of connect, job operations and disconnect, with
\* connect called again for each new job of the window and no disconnect
\* in between, the communicator has at most one open gateway channel and
\* one open compute channel, and every channel opened is closed when
\* disconnect has returned
C33_Original == AtMostOneEach /\ DisconnectClosesAll

\* ================================================ claims on SpecObserve
\* the worker's moves take a job from status a to the later status b
MovedForward(a, b) ==
  \/ a = "pending" /\ b \in {"running", "completed", "failed"}
  \/ a = "running" /\ b \in TerminalStatuses
\* the status directory holding job j
Position(fs, j) == CHOOSE d \in StatusSet : IsFile(fs, DocNode(d, j))
\* the document job a holds while in status s
HeldAs(s) ==
  [JobData(JobA, QueueFunction, QueueParameters) EXCEPT !.status = s]
\* job a has been in status s: s is not before where it started and not
\* after where it is
WentThrough(s) ==
  /\ s = Position(rfs0, JobA) \/ MovedForward(Position(rfs0, JobA), s)
  /\ s = Position(rfs, JobA) \/ MovedForward(s, Position(rfs, JobA))
HooksInOrder ==
  \A i, k \in 1..Len(hookLog) :
    i < k => MovedForward(hookLog[i].status, hookLog[k].status)
HooksWentThrough ==
  \A i \in 1..Len(hookLog) :
    /\ hookLog[i].status \in StatusSet
    /\ hookLog[i] = HeldAs(hookLog[i].status)
    /\ WentThrough(hookLog[i].status)
\* C31: with the worker moving the job forward only, the documents one
\* wait_for_job call passes to the hook are, in their order, documents of
\* states the job went through, each state later than the one before it:
\* states may be skipped, none comes out of order, none comes twice
C31_OrderedObservations == HooksInOrder /\ HooksWentThrough
C31_Witness ==
  /\ op = "wait" /\ arg = JobA /\ wpc = "returned"
  /\ Len(hookLog) = 2
  /\ hookLog[1].status = "pending" /\ hookLog[2].status = "failed"
  /\ result = HeldAs("failed")

\* a get_job_status for job a, whose document is in the queue throughout,
\* has returned: it returned a document
NeverAbsentForLive == (gpc = "returned" /\ gsJob = JobA) => gsRet # None
\* ... on a probe that found the document the job held at that instant
ReturnsHeld ==
  (gpc = "probing" /\ gpc' = "returned" /\ gsJob = JobA) =>
    /\ gsIdx \in 1..Len(Statuses)
    /\ ProbeDir(gsIdx) = Position(rfs, JobA)
    /\ gsRet' = rfs[DocNode(Position(rfs, JobA), JobA)].data
    /\ gsRet' = HeldAs(Position(rfs, JobA))
\* C34: a job document that is in the queue throughout a get_job_status
\* call and that the worker only moves atomically forward between the
\* probes is never reported absent: the call returns a document, the one
\* the job held at the instant of the probe that found it
C34_LiveJobFound == []NeverAbsentForLive /\ [][ReturnsHeld]_vars
C34_Witness ==
  /\ op = "status" /\ done /\ arg = JobA
  /\ Position(rfs0, JobA) = "pending"
  /\ Len(cmdLog) = Len(Statuses)
  /\ ret = HeldAs("failed")

\* wait_for_job with timeout <= 0 is over at its first deadline test: no
\* poll, no hook, None
NoLookWithoutTime ==
  (op = "wait" /\ timeout <= 0) =>
    /\ wpc \in {"test", "timedout"}
    /\ pollLog = <<>> /\ hookLog = <<>> /\ cmdLog = <<>>
    /\ result = None
\* a wait that timed out returns None, whatever the queue holds by then
TimedOutIsNone == wpc = "timedout" => result = None
\* a poll begins only from a deadline test that found time left, and a
\* sleep is followed by the deadline test
TestBeforePoll ==
  /\ (wpc # "poll" /\ wpc' = "poll") => (wpc = "test" /\ clock < timeout)
  /\ (wpc = "sleep" /\ wpc' # "sleep") => wpc' = "test"
  /\ (wpc = "test" /\ wpc' # "test" /\ ~(clock < timeout)) =>
       (wpc' = "timedout" /\ pollLog' = pollLog /\ hookLog' = hookLog)
\* C35: wait_for_job with timeout <= 0 returns None without a poll and
\* without calling the hook, also when the job's document is terminal
\* already; the deadline is tested before each poll and nowhere else, so
\* that a wait whose deadline passes in a sleep returns None without
\* another look at the queue
C35_DeadlineBeforePoll ==
  []NoLookWithoutTime /\ []TimedOutIsNone /\ [][TestBeforePoll]_vars
C35_Witness ==
  /\ op = "wait" /\ arg = JobA /\ timeout <= 0 /\ hasHook
  /\ wpc = "timedout" /\ result = None
  /\ Position(rfs0, JobA) = "completed" /\ Position(rfs, JobA) = "completed"
  /\ pollLog = <<>> /\ hookLog = <<>>

\* ================================================== claims on SpecJobId
SameSubmission(a, b) ==
  a.function = b.function /\ a.now = b.now /\ a.suffix = b.suffix
\* C24 as stated: any two submissions get distinct job ids.
C24_Original == Len(issued) = 2 => issued[1].job_id # issued[2].job_id
\* C24: the job id function_timestamp_suffix is injective: two job ids are
\* equal exactly when function name, timestamp (to the second) and suffix
\* are all equal, also when function names contain underscores and digits;
\* so two submissions get distinct job ids unless they agree in all three.
C24_Injective ==
  \A i, j \in 1..Len(issued) :
    issued[i].job_id = issued[j].job_id <=> SameSubmission(issued[i], issued[j])
C24_Witness ==
  /\ Len(issued) = 2
  /\ issued[1].function = <<"f">> /\ issued[2].function = <<"f", "_">>
  /\ issued[1].now = issued[2].now /\ issued[1].suffix = issued[2].suffix
  /\ issued[1].job_id # issued[2].job_id

\* ============================================== claims on SpecRoundTrip
ReadBack == op = "submit" /\ done /\ gpc = "returned"
\* C23 as stated: whatever the strings of the document, single quotes and
\* other shell-special characters included, the document get_job_status
\* reads back after a successful submit_job has the job_id, function, status
\* and parameters, credentials included, that submit_job put into it.
C23_Original ==
  (ReadBack /\ ret # None) =>
    /\ gsRet # None
    /\ \A k \in {"job_id", "function", "status", "parameters"} :
         gsRet[k] = job_data[k]

\* ================================================= claims on SpecStatus
FirstHolding(fs, j) == CHOOSE i \in HoldingDirs(fs, j) : \A k \in HoldingDirs(fs, j) : i <= k

\* C5: get_job_status probes pending, running, completed, failed in that
\* order, returns the document of the first directory holding <job_id>.json
\* without probing a later one, and returns None iff no directory holds it.
C5_FirstHoldingDir ==
  /\ op = "status" =>
       /\ Len(cmdLog) <= Len(Statuses)
       /\ \A i \in 1..Len(cmdLog) : cmdLog[i] = CatCommand(Statuses[i], arg)
  /\ (op = "status" /\ done) =>
       IF HoldingDirs(rfs, arg) = {}
         THEN ret = None /\ Len(cmdLog) = Len(Statuses)
         ELSE /\ ret = rfs[DocNode(Statuses[FirstHolding(rfs, arg)], arg)].data
              /\ ret # None
              /\ Len(cmdLog) = FirstHolding(rfs, arg)
C5_Witness ==
  /\ op = "status" /\ done /\ arg = JobB
  /\ HoldingDirs(rfs, JobB) = {2, 4}
  /\ HoldingDirs(rfs, JobA) = {1}
  /\ ret = JobDoc(JobB, "running", 0)

\* =================================================== claims on SpecWait
TerminalPolls == {i \in 1..Len(pollLog) : IsTerminal(pollLog[i])}
TerminalHooks == {i \in 1..Len(hookLog) : IsTerminal(hookLog[i])}
\* the polls wait_for_job has finished dealing with
Processed == IF wpc \in {"compare", "hook"} THEN Front(pollLog) ELSE pollLog
NonAbsent(d) == d # None
RECURSIVE DropRepeats(_)
\* a sequence without the elements that equal their predecessor
DropRepeats(s) ==
  IF Len(s) <= 1 THEN s
  ELSE IF Last(s) = s[Len(s) - 1] THEN DropRepeats(Front(s))
  ELSE Append(DropRepeats(Front(s)), Last(s))

\* C1: the first poll that returns a 'completed' or 'failed' document is the
\* last poll; the hook gets that document exactly once, wait_for_job returns
\* exactly that document, and no poll, sleep or hook call follows; once such a
\* document was polled the call does return.
C1_Inv ==
  /\ \A i \in TerminalPolls : i = Len(pollLog)
  /\ wpc = "returned" => TerminalPolls # {}
  /\ TerminalPolls # {} =>
       /\ wpc \in {"compare", "hook", "terminal", "returned"}
       /\ sleeps = Len(pollLog) - 1
       /\ wpc = "returned" => result = Last(pollLog)
       /\ wpc \in {"compare", "hook"} => TerminalHooks = {}
       /\ (hasHook /\ wpc \in {"terminal", "returned"}) =>
            /\ TerminalHooks = {Len(hookLog)}
            /\ Last(hookLog) = Last(pollLog)
       /\ ~hasHook => hookLog = <<>>
C1_TerminalOnce ==
  /\ []C1_Inv
  /\ (TerminalPolls # {}) ~> (wpc = "returned")
C1_Witness ==
  /\ wpc = "returned" /\ hasHook
  /\ Len(pollLog) = 2 /\ result.status = "failed"
  /\ Len(hookLog) = 2

\* C2 (as claimed): with no terminal document ever polled, wait_for_job ends
\* with None no later than one polling interval past the deadline.
C2_Original ==
  (WaitFinished /\ TerminalPolls = {}) =>
     /\ wpc = "timedout" /\ result = None
     /\ clock <= timeout + PollInterval
\* C2 (amended): wait_for_job always terminates, after at most
\* ceil(timeout / 5) polls; with no terminal document ever polled it returns
\* None at the first deadline test at or after the deadline, which is less
\* than one polling interval plus the time its last iteration spent in the
\* status lookup and the hook past the deadline.
C2_Inv ==
  /\ pollLog # <<>> => (Len(pollLog) - 1) * PollInterval < timeout
  /\ (WaitFinished /\ TerminalPolls = {}) =>
       /\ wpc = "timedout" /\ result = None
       /\ clock >= timeout
       /\ pollLog = <<>> => clock = 0
       /\ pollLog # <<>> => clock < timeout + PollInterval + iterCost
C2_BoundedWait ==
  /\ []C2_Inv
  /\ <>WaitFinished
C2_Witness ==
  /\ wpc = "timedout" /\ TerminalPolls = {}
  /\ Len(pollLog) = 2 /\ pollLog[1] = None /\ pollLog[2] # None
  /\ clock > timeout + PollInterval

\* C3: wait_for_job returns None only when the deadline passed and no terminal
\* document was polled; a polled 'failed' document is what it returns; and the
\* caller shows "Job timed out" for None, "Job failed on server" only for a
\* returned 'failed' document.
C3_TimeoutIsNotFailure ==
  /\ wpc = "timedout" =>
       /\ result = None /\ clock >= timeout /\ TerminalPolls = {}
  /\ (WaitFinished /\ result = None) => wpc = "timedout"
  /\ \A i \in 1..Len(pollLog) :
       (WaitFinished /\ pollLog[i] # None /\ pollLog[i].status = "failed")
          => (wpc = "returned" /\ result = pollLog[i])
  /\ uiMsg # NoMsg =>
       /\ (result = None) <=> (uiMsg = "Job timed out")
       /\ (uiMsg = "Job failed on server") <=>
            (result # None /\ result.status = "failed")
C3_Witness ==
  /\ wpc = "timedout" /\ uiMsg = "Job timed out"
  /\ Len(pollLog) = 2 /\ pollLog[2] # None /\ pollLog[2].status = "running"

\* C4: the hook is called exactly for the polled documents that are present
\* and differ, as whole documents, from the last present document polled
\* before them, so no two consecutive hook calls get equal documents; for the
\* polls pending, pending, completed it is called at most 3 times and
\* wait_for_job returns the completed document.
C4_HookOnChange ==
  /\ hasHook => hookLog = DropRepeats(SelectSeq(Processed, NonAbsent))
  /\ ~hasHook => hookLog = <<>>
  /\ \A i \in 1..(Len(hookLog) - 1) : hookLog[i] # hookLog[i + 1]
  /\ ( /\ Len(pollLog) = 3 /\ WaitFinished
       /\ pollLog[1] # None /\ pollLog[1].status = "pending"
       /\ pollLog[2] = pollLog[1]
       /\ pollLog[3] # None /\ pollLog[3].status = "completed" )
     => (Len(hookLog) <= 3 /\ wpc = "returned" /\ result = pollLog[3])
C4_Witness ==
  /\ wpc = "returned" /\ hasHook /\ Len(pollLog) = 3
  /\ pollLog[1] # None /\ pollLog[1].status = "pending"
  /\ pollLog[2] # None /\ pollLog[2].status = "pending"
  /\ pollLog[2] # pollLog[1]
  /\ pollLog[3] # None /\ pollLog[3].status = "completed"
  /\ Len(hookLog) = 3

====
